---------------------------- MODULE Spec2Model ----------------------------
(***************************************************************************)
(* Model of the Discogs metadata tagger (src/Window.py, src/FileData.py).  *)
(*                                                                         *)
(* The state is the TagWindow object (its flags, the added_files list, the *)
(* Treeview rows, the Listbox of pending titles, the entry variables, the  *)
(* edit and token pop-ups) together with the audio files on disk.  Every   *)
(* button or key binding of the window is one action; a handler runs to    *)
(* completion before the next event is served (tkinter's mainloop), and an *)
(* exception that escapes a handler ends that handler where it is raised   *)
(* and leaves the assignments made before it (tkinter reports it and goes  *)
(* on serving events).                                                     *)
(*                                                                         *)
(* Python strings are sequences of one-character strings, so that slicing, *)
(* splitting, stripping and int() are computed as the code computes them.  *)
(***************************************************************************)
EXTENDS Integers, Sequences, FiniteSets, TLC

VARIABLES
    added_files,    \* self.added_files: list of file paths
    tree,           \* self.tree: the Treeview rows, top to bottom
    listbox,        \* self.listbox: the pending track titles
    files_loaded,   \* self.files_loaded
    data_loaded,    \* self.data_loaded
    token_flag,     \* self.token_flag
    entry,          \* the StringVars of the entry boxes, by name
    release_number, \* self.release_number (None until ValidateURL sets it)
    token_wins,     \* number of token pop-ups on screen (GetUserToken)
    edit,           \* the edit pop-up: on screen or not, clicked_row, clicked_column
    disk,           \* the tags stored in each audio file
    inaccessible,   \* the paths mutagen cannot open at the moment
    last,           \* what the last handler did (history, read by properties)
    steps           \* number of events served so far

vars == <<added_files, tree, listbox, files_loaded, data_loaded, token_flag,
          entry, release_number, token_wins, edit, disk, inaccessible, last,
          steps>>

---------------------------------------------------------------------------
(* Bounds of the model.                                                    *)

\* Number of distinct audio files the user can pick in the file dialog.
NumPaths == 3

\* Number of events of a session the model follows.
MaxSteps == 3

\* Number of tracks of the longest release the lookup returns.
MaxTracks == 2

Paths == 1..NumPaths

None == "None"

---------------------------------------------------------------------------
(* Python str, as sequences of characters.                                 *)

Digit == <<"0", "1", "2", "3", "4", "5", "6", "7", "8", "9">>

DigitChars == {Digit[i] : i \in 1..10}

Space == {" ", "\t", "\n"}

\* str(n) for n >= 0
RECURSIVE str(_)
str(n) == IF n < 10 THEN <<Digit[n + 1]>>
          ELSE str(n \div 10) \o <<Digit[(n % 10) + 1]>>

\* s[k:], k counted from 0
SliceFrom(s, k) == SubSeq(s, k + 1, Len(s))

\* s[:k]
SliceTo(s, k) == SubSeq(s, 1, IF k < Len(s) THEN k ELSE Len(s))

RECURSIVE lstrip(_)
lstrip(s) == IF s # <<>> /\ Head(s) \in Space THEN lstrip(Tail(s)) ELSE s

RECURSIVE rstrip(_)
rstrip(s) == IF s # <<>> /\ s[Len(s)] \in Space
             THEN rstrip(SubSeq(s, 1, Len(s) - 1)) ELSE s

\* s.rstrip(chars)
RECURSIVE rstripChars(_, _)
rstripChars(s, chars) == IF s # <<>> /\ s[Len(s)] \in chars
                         THEN rstripChars(SubSeq(s, 1, Len(s) - 1), chars)
                         ELSE s

\* sub in s
Contains(s, sub) ==
    \E i \in 1..(Len(s) - Len(sub) + 1) : SubSeq(s, i, i + Len(sub) - 1) = sub

\* s.split(sep): the list of the pieces between the separators
RECURSIVE split(_, _)
split(s, sep) ==
    IF \A i \in 1..Len(s) : s[i] # sep THEN <<s>>
    ELSE LET k == CHOOSE i \in 1..Len(s) :
                      s[i] = sep /\ \A j \in 1..(i - 1) : s[j] # sep
         IN <<SubSeq(s, 1, k - 1)>> \o split(SubSeq(s, k + 1, Len(s)), sep)

\* The digits of a decimal literal as a number.
RECURSIVE DigitsValue(_)
DigitsValue(s) ==
    IF s = <<>> THEN 0
    ELSE 10 * DigitsValue(SubSeq(s, 1, Len(s) - 1))
         + (CHOOSE d \in 0..9 : Digit[d + 1] = s[Len(s)])

\* Whether int(s) returns: optional blanks, an optional sign, then digits.
IntBody(s) == LET t == rstrip(lstrip(s))
              IN IF t # <<>> /\ Head(t) \in {"+", "-"} THEN Tail(t) ELSE t

\* int() were it to read the empty string as a number.
IsInt_EmptyIsNumber(s) ==
    \/ s = <<>>
    \/ /\ IntBody(s) # <<>>
       /\ \A i \in 1..Len(IntBody(s)) : IntBody(s)[i] \in DigitChars

IsInt(s) == /\ IntBody(s) # <<>>
            /\ \A i \in 1..Len(IntBody(s)) : IntBody(s)[i] \in DigitChars

\* int(s), where it returns
int(s) == LET t == rstrip(lstrip(s))
          IN IF t # <<>> /\ Head(t) = "-" THEN 0 - DigitsValue(IntBody(s))
             ELSE DigitsValue(IntBody(s))

---------------------------------------------------------------------------
(* Columns of the Treeview and metadata tags.                              *)

Columns == {"#1", "#2", "#3", "#4", "#5", "#6", "#7", "#8", "#9"}

Tags == {"TrackNumber", "Title", "Artist", "AlbumArtist", "Album", "Date",
         "Genre", "Organization", "TrackTotal"}

ConvertColToTag(column) ==
    CASE column = "#1" -> "TrackNumber"
      [] column = "#3" -> "Title"
      [] column = "#4" -> "Artist"
      [] column = "#5" -> "AlbumArtist"
      [] column = "#6" -> "Album"
      [] column = "#7" -> "Date"
      [] column = "#8" -> "Genre"
      [] column = "#9" -> "Organization"
      [] OTHER -> None

\* ConvertTagToCol were it to send 'AlbumArtist' to the Artist column.
ConvertTagToCol_ArtistTwice(tag) ==
    CASE tag = "TrackNumber" -> "#1"
      [] tag = "Title" -> "#3"
      [] tag = "Artist" -> "#4"
      [] tag = "AlbumArtist" -> "#4"
      [] tag = "Album" -> "#6"
      [] tag = "Date" -> "#7"
      [] tag = "Genre" -> "#8"
      [] tag = "Organization" -> "#9"
      [] OTHER -> None

ConvertTagToCol(tag) ==
    CASE tag = "TrackNumber" -> "#1"
      [] tag = "Title" -> "#3"
      [] tag = "Artist" -> "#4"
      [] tag = "AlbumArtist" -> "#5"
      [] tag = "Album" -> "#6"
      [] tag = "Date" -> "#7"
      [] tag = "Genre" -> "#8"
      [] tag = "Organization" -> "#9"
      [] OTHER -> None

---------------------------------------------------------------------------
(* The audio files.  A path is a number; FileName gives the string the     *)
(* code sees.  The file dialog of AddFiles filters on *.flac and *.mp3, so *)
(* every path carries one of the two extensions.                           *)

FileName(p) ==
    <<"/", "m", "/">> \o str(p) \o
    (IF p % 2 = 1 THEN <<".", "f", "l", "a", "c">> ELSE <<".", "m", "p", "3">>)

\* os.path.basename
basename(name) == LET parts == split(name, "/") IN parts[Len(parts)]

\* The branch of the extension test shared by ParseFile, UpdateMetadata,
\* UpdateTrackNumbers and UpdateTrackTitle.
Format(name) ==
    IF Contains(name, <<".", "f", "l", "a", "c">>)
       \/ Contains(name, <<".", "F", "L", "A", "C">>) THEN "FLAC"
    ELSE IF Contains(name, <<".", "m", "p", "3">>)
            \/ Contains(name, <<".", "M", "P", "3">>) THEN "MP3"
    ELSE None

\* The try block: the format object, or None when the extension is not
\* supported or mutagen raises MutagenError.
Open(p, bad) == IF Format(FileName(p)) = None \/ p \in bad THEN None
                ELSE Format(FileName(p))

\* The tags the files hold when the program starts.  A tag holds a list of
\* values; the empty list is a missing key.  TrackNumber is "N" or "N/Total".
InitTags(p) ==
    [t \in Tags |->
        CASE t = "TrackNumber" ->
                 <<str(((p + 1) % 3) + 1)
                   \o (IF p % 2 = 1 THEN <<"/">> \o str(3) ELSE <<>>)>>
          [] t = "Title" -> IF p % 2 = 1 THEN <<<<"t">> \o str(p)>> ELSE <<>>
          [] t = "Artist" -> IF p = 1 THEN <<<<"a">>, <<"b">>>> ELSE <<<<"a">>>>
          [] t = "Genre" -> IF p = 1 THEN <<<<"g">>, <<"h", ";">>>> ELSE <<>>
          [] OTHER -> <<>>]

\* song[key][0], '' on KeyError
First(song, key) == IF song[key] = <<>> THEN <<>> ELSE song[key][1]

\* for v in values: string += v + '; '
RECURSIVE Joined(_)
Joined(values) == IF values = <<>> THEN <<>>
                  ELSE Head(values) \o <<";", " ">> \o Joined(Tail(values))

\* The composite string of 'Artist' and 'AlbumArtist'
MultiString(song, key) ==
    IF song[key] = <<>> THEN <<>>
    ELSE IF Len(song[key]) > 1
         THEN rstripChars(rstrip(Joined(song[key])), {";"})
         ELSE song[key][1]

\* The composite string of 'Genre'
GenreString(song) ==
    IF song["Genre"] = <<>> THEN <<>>
    ELSE IF Len(song["Genre"]) > 1
         THEN rstripChars(rstrip(Joined(song["Genre"])), {";", " "})
         ELSE song["Genre"][1]

\* The values tuple of the row ParseFile inserts.
RowValues(p, song) ==
    [c \in Columns |->
        CASE c = "#1" -> IF song["TrackNumber"] = <<>> THEN <<>>
                         ELSE split(song["TrackNumber"][1], "/")[1]
          [] c = "#2" -> basename(FileName(p))
          [] c = "#3" -> First(song, "Title")
          [] c = "#4" -> MultiString(song, "Artist")
          [] c = "#5" -> MultiString(song, "AlbumArtist")
          [] c = "#6" -> First(song, "Album")
          [] c = "#7" -> First(song, "Date")
          [] c = "#8" -> GenreString(song)
          [] c = "#9" -> First(song, "Organization")]

\* 'evenrow' / 'oddrow'
Stripe(index) == IF index % 2 = 0 THEN "evenrow" ELSE "oddrow"

\* The iids of the rows of a tree, top to bottom (tree.get_children()).
get_children(tr) == [k \in 1..Len(tr) |-> tr[k].iid]

\* The file each row was created from (the filename ParseFile inserted it
\* for), top to bottom.
Sources(tr) == [k \in 1..Len(tr) |-> tr[k].src]

\* The identifier ParseFile gives the row of the file at `index` of the
\* selection: the number after 'song'.
song_iid(index) == index

\* ParseFile(filename, tree, index).  A row is its iid (the number after
\* 'song'), its tag, its values, and src, the path it was created from
\* (history).  tree.insert raises TclError when the iid is already in the
\* tree; nothing catches it.
ParseFile(p, tr, index, dsk, bad) ==
    IF Open(p, bad) = None
    THEN [result |-> FALSE, tree |-> tr, fault |-> None]
    ELSE IF \E k \in 1..Len(tr) : tr[k].iid = song_iid(index)
    THEN [result |-> FALSE, tree |-> tr, fault |-> "TclError"]
    ELSE [result |-> TRUE,
          tree |-> Append(tr, [iid |-> song_iid(index), src |-> p,
                               tags |-> Stripe(index),
                               values |-> RowValues(p, dsk[p])]),
          fault |-> None]

---------------------------------------------------------------------------
(* What a handler reports in `last`: the exception that escaped it (fault), *)
(* the number of showerror boxes (errors) and of RemoveFiles prompts       *)
(* (prompts) it showed, one record per lockstep walk (passes), and the     *)
(* answer to the warning of CopyTracklist (proceed); arg is the input the  *)
(* user gave it (the selection of AddFiles, the tag of SendData, the text  *)
(* of UpdateField); lookup is how the call of FillEntrys ended, if the     *)
(* handler made one ("loaded" or "failed").                                *)

Report(op, arg, fault, errors, prompts, passes) ==
    [op |-> op, arg |-> arg, fault |-> fault, errors |-> errors,
     prompts |-> prompts, passes |-> passes, proceed |-> None,
     lookup |-> None]

\* The arg of a handler that takes no input.
NoArg == <<>>

---------------------------------------------------------------------------
(* AddFiles                                                                *)

\* The loop of AddFiles from position i (from 0) of the selection.
RECURSIVE AddLoop(_, _, _, _, _, _, _)
AddLoop(files, i, tr, bad_files, errors, dsk, bad) ==
    IF i >= Len(files)
    THEN [tree |-> tr, bad_files |-> bad_files, errors |-> errors,
          fault |-> None]
    ELSE LET r == ParseFile(files[i + 1], tr, i, dsk, bad)
         IN IF r.fault # None
            THEN [tree |-> r.tree, bad_files |-> bad_files,
                  errors |-> errors, fault |-> r.fault]
            ELSE IF r.result
            THEN AddLoop(files, i + 1, r.tree, bad_files, errors, dsk, bad)
            ELSE AddLoop(files, i + 1, r.tree, bad_files \cup {i},
                         errors + 1, dsk, bad)

\* The selected files without the positions in bad_files.
RECURSIVE Without(_, _, _)
Without(files, bad_files, i) ==
    IF i >= Len(files) THEN <<>>
    ELSE (IF i \in bad_files THEN <<>> ELSE <<files[i + 1]>>)
         \o Without(files, bad_files, i + 1)

\* AddFiles were it to keep the whole selection, the paths that failed to
\* load included.
NewAddedFiles_KeepsFailed(current, files, bad_files) == files

\* The list AddFiles assigns to self.added_files after its loop.
NewAddedFiles(current, files, bad_files) ==
    IF bad_files = {} THEN files ELSE Without(files, bad_files, 0)

AddFiles(files) ==
    IF files = <<>>
    THEN /\ last' = Report("AddFiles", files, None, 0, 0, <<>>)
         /\ UNCHANGED <<added_files, tree, listbox, files_loaded,
                        data_loaded, token_flag, entry, release_number,
                        token_wins, edit, disk, inaccessible>>
    ELSE LET r == AddLoop(files, 0, tree, {}, 0, disk, inaccessible)
         IN /\ files_loaded' = TRUE
            /\ tree' = r.tree
            /\ added_files' = IF r.fault # None THEN added_files
                              ELSE NewAddedFiles(added_files, files,
                                                 r.bad_files)
            /\ last' = Report("AddFiles", files, r.fault, r.errors, 0, <<>>)
            /\ UNCHANGED <<listbox, data_loaded, token_flag, entry,
                           release_number, token_wins, edit, disk,
                           inaccessible>>

---------------------------------------------------------------------------
(* RemoveFiles(index_list), the answer to its askyesno prompt being `ask`. *)
(* The new file list is assigned before tree_contents[index] is read, and  *)
(* every tree_contents[index] is read before the first tree.delete.        *)

\* The rows without the positions (from 0) in index_list.
RECURSIVE WithoutRows(_, _, _)
WithoutRows(tr, index_list, i) ==
    IF i >= Len(tr) THEN <<>>
    ELSE (IF i \in index_list THEN <<>> ELSE <<tr[i + 1]>>)
         \o WithoutRows(tr, index_list, i + 1)

\* RemoveFiles were it to delete the rows and leave the file-path list.
RemoveFiles_KeepsPaths(index_list, ask, files, tr) ==
    IF ~ask
    THEN [added_files |-> files, tree |-> tr, fault |-> None]
    ELSE IF \E index \in index_list : index >= Len(tr)
    THEN [added_files |-> files, tree |-> tr, fault |-> "IndexError"]
    ELSE [added_files |-> files, tree |-> WithoutRows(tr, index_list, 0),
          fault |-> None]

\* RemoveFiles were it to leave the rows of the removed files in the tree.
RemoveFiles_KeepsRows(index_list, ask, files, tr) ==
    IF ~ask
    THEN [added_files |-> files, tree |-> tr, fault |-> None]
    ELSE [added_files |-> Without(files, index_list, 0), tree |-> tr,
          fault |-> None]

\* RemoveFiles were it to remove whatever the user answers.
RemoveFiles_IgnoresAnswer(index_list, ask, files, tr) ==
    IF \E index \in index_list : index >= Len(tr)
    THEN [added_files |-> Without(files, index_list, 0), tree |-> tr,
          fault |-> "IndexError"]
    ELSE [added_files |-> Without(files, index_list, 0),
          tree |-> WithoutRows(tr, index_list, 0), fault |-> None]

RemoveFiles(index_list, ask, files, tr) ==
    IF ~ask
    THEN [added_files |-> files, tree |-> tr, fault |-> None]
    ELSE IF \E index \in index_list : index >= Len(tr)
    THEN [added_files |-> Without(files, index_list, 0), tree |-> tr,
          fault |-> "IndexError"]
    ELSE [added_files |-> Without(files, index_list, 0),
          tree |-> WithoutRows(tr, index_list, 0), fault |-> None]

---------------------------------------------------------------------------
(* The writers of FileData.py.  Each returns result, res_str (where the    *)
(* window reads it), the disk after the call, and the exception that       *)
(* escapes it, if any.                                                     *)

\* The keys EasyID3 (the MP3 tag object) accepts in song[key] = value; any
\* other key raises EasyID3KeyError, outside the try block of the writers.
\* A FLAC file takes any key.
SettableKey(format, tag) ==
    /\ tag # None
    /\ format = "MP3" => tag # "TrackTotal"

\* UpdateMetadata were it to write the value to the Title as well.
UpdateMetadata_WritesTitle(p, tag, update_string, dsk, bad) ==
    IF Open(p, bad) = None
    THEN [result |-> FALSE, res_str |-> None, disk |-> dsk, fault |-> None]
    ELSE IF ~SettableKey(Open(p, bad), tag)
    THEN [result |-> FALSE, res_str |-> None, disk |-> dsk,
          fault |-> IF tag = None THEN "TypeError" ELSE "KeyError"]
    ELSE [result |-> TRUE, res_str |-> ConvertTagToCol(tag),
          disk |-> [dsk EXCEPT ![p][tag] = <<update_string>>,
                               ![p]["Title"] = <<update_string>>],
          fault |-> None]

UpdateMetadata(p, tag, update_string, dsk, bad) ==
    IF Open(p, bad) = None
    THEN [result |-> FALSE, res_str |-> None, disk |-> dsk, fault |-> None]
    ELSE IF ~SettableKey(Open(p, bad), tag)
    THEN [result |-> FALSE, res_str |-> None, disk |-> dsk,
          fault |-> IF tag = None THEN "TypeError" ELSE "KeyError"]
    ELSE [result |-> TRUE, res_str |-> ConvertTagToCol(tag),
          disk |-> [dsk EXCEPT ![p][tag] = <<update_string>>],
          fault |-> None]

UpdateTrackNumbers(p, iid, track_no, dsk, bad) ==
    IF Open(p, bad) = None
    THEN [result |-> FALSE, res_str |-> None, disk |-> dsk, fault |-> None]
    ELSE [result |-> TRUE, res_str |-> None,
          disk |-> [dsk EXCEPT ![p]["TrackNumber"] = <<str(track_no)>>],
          fault |-> None]

\* The title UpdateTrackTitle writes for `title` at counter `index`.
StripNumber(title, index) ==
    IF index < 10 THEN SliceFrom(title, 3) ELSE SliceFrom(title, 4)

UpdateTrackTitle(p, title, iid, index, dsk, bad) ==
    IF Open(p, bad) = None
    THEN [result |-> FALSE, res_str |-> None, disk |-> dsk, fault |-> None]
    ELSE [result |-> TRUE, res_str |-> StripNumber(title, index),
          disk |-> [dsk EXCEPT ![p]["Title"] = <<StripNumber(title, index)>>],
          fault |-> None]

\* tree.set(iid, column, value=value) on the row at position k (from 1); a
\* column of None ends the Tcl command before the value, which sets nothing.
TreeSet(tr, k, column, value) ==
    IF column = None THEN tr
    ELSE [tr EXCEPT ![k].values[column] = value]

Min(a, b) == IF a < b THEN a ELSE b

---------------------------------------------------------------------------
(* The lockstep walks.  A walk state w holds tree, disk, bad_files (the    *)
(* indices the handler appends), failed (the positions, from 0, whose      *)
(* write returned False), tried (the positions a write was attempted for), *)
(* errors, fault.                                                          *)

Walk0(tr, dsk) ==
    [tree |-> tr, disk |-> dsk, bad_files |-> {}, failed |-> {},
     tried |-> {}, errors |-> 0, fault |-> None]

\* One step of a walk at position k (from 0): r is the writer's return,
\* index the value the handler appends to bad_files on failure, column and
\* value what it sets in the row on success.
WalkStep(w, k, r, index, column, value) ==
    IF r.fault # None
    THEN [w EXCEPT !.fault = r.fault, !.tried = @ \cup {k}]
    ELSE IF ~r.result
    THEN [w EXCEPT !.bad_files = @ \cup {index}, !.failed = @ \cup {k},
                   !.tried = @ \cup {k}, !.errors = @ + 1]
    ELSE [w EXCEPT !.disk = r.disk, !.tried = @ \cup {k},
                   !.tree = TreeSet(w.tree, k + 1, column, value)]

\* for file, iid in zip(added_files, tree.get_children()) of SendData and
\* UpdateAll, i counting from 0.
RECURSIVE MetadataWalk(_, _, _, _, _, _)
MetadataWalk(files, tag, text, i, w, bad) ==
    IF i >= Min(Len(files), Len(w.tree)) \/ w.fault # None THEN w
    ELSE LET r == UpdateMetadata(files[i + 1], tag, text, w.disk, bad)
         IN MetadataWalk(files, tag, text, i + 1,
                         WalkStep(w, i, r, i, r.res_str, text), bad)

\* The walk of CopyTracklist were it to go on past the last title, with the
\* empty title for the files left (zip_longest).
RECURSIVE TitleWalk_PadsTitles(_, _, _, _, _)
TitleWalk_PadsTitles(files, titles, i, w, bad) ==
    IF i >= Min(Len(files), Len(w.tree)) \/ w.fault # None
    THEN w
    ELSE LET r == UpdateTrackTitle(files[i + 1],
                                   IF i < Len(titles) THEN titles[i + 1]
                                   ELSE <<>>,
                                   w.tree[i + 1].iid, i, w.disk, bad)
         IN TitleWalk_PadsTitles(files, titles, i + 1,
                                 WalkStep(w, i, r, i, "#3", r.res_str), bad)

\* The walk of CopyTracklist over files, rows and titles, i counting from 0.
RECURSIVE TitleWalk(_, _, _, _, _)
TitleWalk(files, titles, i, w, bad) ==
    IF i >= Min(Min(Len(files), Len(w.tree)), Len(titles)) \/ w.fault # None
    THEN w
    ELSE LET r == UpdateTrackTitle(files[i + 1], titles[i + 1],
                                   w.tree[i + 1].iid, i, w.disk, bad)
         IN TitleWalk(files, titles, i + 1,
                      WalkStep(w, i, r, i, "#3", r.res_str), bad)

\* The walk of CopyTrackNumbers, i counting from 1.
RECURSIVE NumberWalk(_, _, _, _)
NumberWalk(files, i, w, bad) ==
    IF i > Min(Len(files), Len(w.tree)) \/ w.fault # None THEN w
    ELSE LET r == UpdateTrackNumbers(files[i], w.tree[i].iid, i, w.disk, bad)
         IN NumberWalk(files, i + 1,
                       WalkStep(w, i - 1, r, i, "#1", str(i)), bad)

\* A handler's run so far: the lists, the disk, and what it reports.
Run0(files, tr, dsk) ==
    [added_files |-> files, tree |-> tr, disk |-> dsk, fault |-> None,
     errors |-> 0, prompts |-> 0, passes |-> <<>>]

\* The end of a batch: `if bad_files: self.RemoveFiles(bad_files)` after the
\* walk w that started from run, the prompt being answered `ask`.
AfterWalk(run, w, ask) ==
    LET asked == w.fault = None /\ w.bad_files # {}
        rm == IF asked
              THEN RemoveFiles(w.bad_files, ask, run.added_files, w.tree)
              ELSE [added_files |-> run.added_files, tree |-> w.tree,
                    fault |-> w.fault]
    IN [added_files |-> rm.added_files, tree |-> rm.tree, disk |-> w.disk,
        fault |-> rm.fault,
        errors |-> run.errors + w.errors,
        prompts |-> run.prompts + (IF asked THEN 1 ELSE 0),
        passes |-> Append(run.passes,
                          [files |-> run.added_files,
                           rows |-> get_children(run.tree),
                           srcs |-> Sources(run.tree),
                           failed |-> w.failed, tried |-> w.tried,
                           bad_files |-> w.bad_files,
                           asked |-> asked, ask |-> asked /\ ask])]

\* The assignments every batch handler makes from its run.
Finish(op, arg, run) ==
    /\ added_files' = run.added_files
    /\ tree' = run.tree
    /\ disk' = run.disk
    /\ last' = Report(op, arg, run.fault, run.errors, run.prompts, run.passes)

\* A handler that returns at once.
Return(op, arg) ==
    /\ last' = Report(op, arg, None, 0, 0, <<>>)
    /\ UNCHANGED <<added_files, tree, disk>>

---------------------------------------------------------------------------
(* The handlers of the batch buttons.                                      *)

\* .lstrip().rstrip() were it left out: the text as typed.
strip_KeepsBlanks(s) == s

\* .lstrip().rstrip()
strip(s) == rstrip(lstrip(s))

\* The entry box whose text SendData(tag) reads.
EntryOf(tag) ==
    CASE tag = "Album" -> "album"
      [] tag = "AlbumArtist" -> "album_artist"
      [] tag = "Artist" -> "artist"
      [] tag = "Date" -> "release_date"
      [] tag = "Genre" -> "genre"
      [] tag = "Organization" -> "publisher"
      [] tag = "TrackTotal" -> "total_tracks"

\* The tags that have a 'Send Data' button (CreateMetadataFields).
SendTags == {"Artist", "AlbumArtist", "Album", "Genre", "Organization",
             "Date", "TrackTotal"}

SendData(tag, ask) ==
    /\ IF ~files_loaded THEN Return("SendData", <<tag>>)
       ELSE LET run == Run0(added_files, tree, disk)
                w == MetadataWalk(added_files, tag, strip(entry[EntryOf(tag)]),
                                  0, Walk0(tree, disk), inaccessible)
            IN Finish("SendData", <<tag>>, AfterWalk(run, w, ask))
    /\ UNCHANGED <<listbox, files_loaded, data_loaded, token_flag, entry,
                   release_number, token_wins, edit, inaccessible>>

\* The `data` list of UpdateAll: the tags in the order they are sent.
UpdateAllTags == <<"Album", "AlbumArtist", "Artist", "Date", "Genre",
                   "Organization", "TrackTotal">>

\* The runs of `for entry in data` from entry k on: one per way the prompts
\* of the remaining passes can be answered.
RECURSIVE UpdateAllRuns(_, _, _, _)
UpdateAllRuns(k, run, texts, bad) ==
    IF k > Len(UpdateAllTags) \/ run.fault # None THEN {run}
    ELSE LET w == MetadataWalk(run.added_files, UpdateAllTags[k],
                               strip(texts[EntryOf(UpdateAllTags[k])]), 0,
                               Walk0(run.tree, run.disk), bad)
         IN IF w.fault = None /\ w.bad_files # {}
            THEN UNION {UpdateAllRuns(k + 1, AfterWalk(run, w, ask), texts, bad)
                        : ask \in BOOLEAN}
            ELSE UpdateAllRuns(k + 1, AfterWalk(run, w, FALSE), texts, bad)

UpdateAll ==
    /\ IF ~files_loaded THEN Return("UpdateAll", NoArg)
       ELSE \E run \in UpdateAllRuns(1, Run0(added_files, tree, disk), entry,
                                     inaccessible) :
                Finish("UpdateAll", NoArg, run)
    /\ UNCHANGED <<listbox, files_loaded, data_loaded, token_flag, entry,
                   release_number, token_wins, edit, inaccessible>>

\* Python's `not ask` for the string tk.messagebox.askquestion returns
\* ('yes' or 'no'): only the empty string is false.
NotStr(ask) == ask = ""

\* CopyTracklist were it not to test files_loaded.
CopyTracklist_NoGuard(proceed, ask) ==
    /\ IF NotStr(proceed)
       THEN /\ last' = [Report("CopyTracklist", NoArg, None, 0, 0, <<>>)
                            EXCEPT !.proceed = proceed]
            /\ UNCHANGED <<added_files, tree, disk>>
       ELSE LET run == AfterWalk(Run0(added_files, tree, disk),
                                 TitleWalk(added_files, listbox, 0,
                                           Walk0(tree, disk), inaccessible),
                                 ask)
            IN /\ added_files' = run.added_files
               /\ tree' = run.tree
               /\ disk' = run.disk
               /\ last' = [Report("CopyTracklist", NoArg, run.fault, run.errors,
                                  run.prompts, run.passes)
                               EXCEPT !.proceed = proceed]
    /\ UNCHANGED <<listbox, files_loaded, data_loaded, token_flag, entry,
                   release_number, token_wins, edit, inaccessible>>

\* CopyTracklist, the warning being answered `proceed` ("yes" or "no") and
\* the removal prompt `ask`.
CopyTracklist(proceed, ask) ==
    /\ IF ~files_loaded THEN Return("CopyTracklist", NoArg)
       ELSE IF NotStr(proceed)
       THEN /\ last' = [Report("CopyTracklist", NoArg, None, 0, 0, <<>>)
                            EXCEPT !.proceed = proceed]
            /\ UNCHANGED <<added_files, tree, disk>>
       ELSE LET run == AfterWalk(Run0(added_files, tree, disk),
                                 TitleWalk(added_files, listbox, 0,
                                           Walk0(tree, disk), inaccessible),
                                 ask)
            IN /\ added_files' = run.added_files
               /\ tree' = run.tree
               /\ disk' = run.disk
               /\ last' = [Report("CopyTracklist", NoArg, run.fault, run.errors,
                                  run.prompts, run.passes)
                               EXCEPT !.proceed = proceed]
    /\ UNCHANGED <<listbox, files_loaded, data_loaded, token_flag, entry,
                   release_number, token_wins, edit, inaccessible>>

CopyTrackNumbers(ask) ==
    /\ IF ~files_loaded THEN Return("CopyTrackNumbers", NoArg)
       ELSE LET run == Run0(added_files, tree, disk)
                w == NumberWalk(added_files, 1, Walk0(tree, disk),
                                inaccessible)
            IN Finish("CopyTrackNumbers", NoArg, AfterWalk(run, w, ask))
    /\ UNCHANGED <<listbox, files_loaded, data_loaded, token_flag, entry,
                   release_number, token_wins, edit, inaccessible>>

---------------------------------------------------------------------------
(* SortByTrackNumber                                                       *)

\* SortFunc(e)
SortFunc(row) == int(row.values["#1"])

\* list.sort(key=SortFunc): stable, ascending.  Insert row behind the rows
\* of `sorted` whose key is not greater.
\* The insertion were it to put a row before the rows of equal key.
RECURSIVE Insert_BeforeEqual(_, _)
Insert_BeforeEqual(sorted, row) ==
    IF sorted = <<>> THEN <<row>>
    ELSE IF SortFunc(Head(sorted)) < SortFunc(row)
         THEN <<Head(sorted)>> \o Insert_BeforeEqual(Tail(sorted), row)
         ELSE <<row>> \o sorted

RECURSIVE Insert(_, _)
Insert(sorted, row) ==
    IF sorted = <<>> THEN <<row>>
    ELSE IF SortFunc(Head(sorted)) <= SortFunc(row)
         THEN <<Head(sorted)>> \o Insert(Tail(sorted), row)
         ELSE <<row>> \o sorted

RECURSIVE SortRows(_)
SortRows(rows) ==
    IF rows = <<>> THEN <<>>
    ELSE Insert(SortRows(SubSeq(rows, 1, Len(rows) - 1)), rows[Len(rows)])

\* The slot of added_copy the loop reads for a row: int(iid[4:]).
SlotIndex(row) == row.iid

\* The rebuild of added_files from added_copy: the list so far and whether
\* added_copy[index] raised IndexError.
RECURSIVE Rebuild(_, _, _, _)
Rebuild(rows, k, added_copy, acc) ==
    IF k > Len(rows) THEN [added_files |-> acc, fault |-> None]
    ELSE IF SlotIndex(rows[k]) >= Len(added_copy)
    THEN [added_files |-> acc, fault |-> "IndexError"]
    ELSE Rebuild(rows, k + 1, added_copy,
                 Append(acc, added_copy[SlotIndex(rows[k]) + 1]))

\* The last loop: the tag of every row from its new position.
Restripe(rows) == [k \in 1..Len(rows) |-> [rows[k] EXCEPT !.tags = Stripe(k - 1)]]

SortByTrackNumber ==
    /\ IF \E k \in 1..Len(tree) : ~IsInt(tree[k].values["#1"])
       THEN /\ last' = Report("SortByTrackNumber", NoArg, None, 1, 0, <<>>)
            /\ UNCHANGED <<added_files, tree>>
       ELSE LET tree_contents == SortRows(tree)
                rb == Rebuild(tree_contents, 1, added_files, <<>>)
            IN /\ added_files' = rb.added_files
               /\ tree' = IF rb.fault # None THEN tree_contents
                          ELSE Restripe(tree_contents)
               /\ last' = Report("SortByTrackNumber", NoArg, rb.fault, 0, 0, <<>>)
    /\ UNCHANGED <<listbox, files_loaded, data_loaded, token_flag, entry,
                   release_number, token_wins, edit, disk, inaccessible>>

---------------------------------------------------------------------------
(* The edit pop-up: DoubleClick, UpdateField, RestoreDoubleClick.          *)

\* A double click on the cell of row `row` (an iid) in column `column`.  The
\* binding is removed while the pop-up is on screen.  clicked_row and
\* clicked_column are read by UpdateField only, which the pop-up's button
\* calls, and DoubleClick sets both before it shows the pop-up: once the
\* pop-up is gone they are never read again, and NoEdit stands for them.
NoEdit == [open |-> FALSE, clicked_row |-> 0 - 1, clicked_column |-> None]

DoubleClick(row, column) ==
    /\ ~edit.open
    /\ \E k \in 1..Len(tree) : tree[k].iid = row
    /\ edit' = [open |-> TRUE, clicked_row |-> row, clicked_column |-> column]
    /\ last' = Report("DoubleClick", NoArg, None, 0, 0, <<>>)
    /\ UNCHANGED <<added_files, tree, listbox, files_loaded, data_loaded,
                   token_flag, entry, release_number, token_wins, disk,
                   inaccessible>>

\* The user closes the pop-up; <Destroy> runs RestoreDoubleClick.
RestoreDoubleClick ==
    /\ edit.open
    /\ edit' = NoEdit
    /\ last' = Report("RestoreDoubleClick", NoArg, None, 0, 0, <<>>)
    /\ UNCHANGED <<added_files, tree, listbox, files_loaded, data_loaded,
                   token_flag, entry, release_number, token_wins, disk,
                   inaccessible>>

\* tree.index(iid) were it the number after 'song' in the iid (the slot the
\* row was loaded at).
TreeIndex_FromIid(tr, iid) ==
    IF \E k \in 1..Len(tr) : tr[k].iid = iid THEN iid ELSE 0 - 1

\* tree.index(iid): the position (from 0) of the row, or -1 where Tk raises
\* TclError because the item is gone.
TreeIndex(tr, iid) ==
    IF \E k \in 1..Len(tr) : tr[k].iid = iid
    THEN (CHOOSE k \in 1..Len(tr) : tr[k].iid = iid) - 1
    ELSE 0 - 1

\* The position of added_files UpdateField reads for the clicked row at
\* position idx of the tree.
FileIndex(idx) == idx

\* UpdateField with new_value holding `text`, the removal prompt answered
\* `ask`.  A handler that raises leaves the pop-up on screen.
UpdateField(text, ask) ==
    /\ edit.open
    /\ LET idx == TreeIndex(tree, edit.clicked_row)
           tag == ConvertColToTag(edit.clicked_column)
           stay(fault) ==
               /\ last' = Report("UpdateField", strip(text), fault, 0, 0, <<>>)
               /\ UNCHANGED <<added_files, tree, disk, edit>>
       IN IF strip(text) = <<>> THEN stay(None)
          ELSE IF idx < 0 THEN stay("TclError")
          ELSE IF FileIndex(idx) >= Len(added_files) THEN stay("IndexError")
          ELSE LET r == UpdateMetadata(added_files[FileIndex(idx) + 1], tag,
                                       strip(text), disk, inaccessible)
               IN IF r.fault # None THEN stay(r.fault)
                  ELSE IF ~r.result
                  THEN LET rm == RemoveFiles({idx}, ask, added_files, tree)
                       IN /\ added_files' = rm.added_files
                          /\ tree' = rm.tree
                          /\ disk' = disk
                          /\ edit' = IF rm.fault # None THEN edit ELSE NoEdit
                          /\ last' = Report("UpdateField", strip(text), rm.fault, 1, 1,
                                 <<[files |-> added_files,
                                    rows |-> get_children(tree),
                                    srcs |-> Sources(tree),
                                    failed |-> {idx}, tried |-> {idx},
                                    bad_files |-> {idx},
                                    asked |-> TRUE, ask |-> ask]>>)
                  ELSE /\ tree' = TreeSet(tree, idx + 1, r.res_str, strip(text))
                       /\ disk' = r.disk
                       /\ edit' = NoEdit
                       /\ last' = Report("UpdateField", strip(text), None, 0, 0,
                                 <<[files |-> added_files,
                                    rows |-> get_children(tree),
                                    srcs |-> Sources(tree),
                                    failed |-> {}, tried |-> {idx},
                                    bad_files |-> {},
                                    asked |-> FALSE, ask |-> FALSE]>>)
                       /\ UNCHANGED added_files
    /\ UNCHANGED <<listbox, files_loaded, data_loaded, token_flag, entry,
                   release_number, token_wins, inaccessible>>

---------------------------------------------------------------------------
(* ResetWindow                                                             *)

\* The StringVars ResetWindow clears.
ResetNames == {"URL", "artist", "album_artist", "album", "genre",
               "publisher", "release_date", "total_tracks"}

\* ResetWindow were it to leave the rows in the tree.
ResetWindow_KeepsRows ==
    /\ data_loaded' = FALSE
    /\ files_loaded' = FALSE
    /\ added_files' = <<>>
    /\ entry' = [n \in DOMAIN entry |-> IF n \in ResetNames THEN <<>>
                                        ELSE entry[n]]
    /\ listbox' = <<>>
    /\ tree' = tree
    /\ last' = Report("ResetWindow", NoArg, None, 0, 0, <<>>)
    /\ UNCHANGED <<token_flag, release_number, token_wins, edit, disk,
                   inaccessible>>

ResetWindow ==
    /\ data_loaded' = FALSE
    /\ files_loaded' = FALSE
    /\ added_files' = <<>>
    /\ entry' = [n \in DOMAIN entry |-> IF n \in ResetNames THEN <<>>
                                        ELSE entry[n]]
    /\ listbox' = <<>>
    /\ tree' = <<>>
    /\ last' = Report("ResetWindow", NoArg, None, 0, 0, <<>>)
    /\ UNCHANGED <<token_flag, release_number, token_wins, edit, disk,
                   inaccessible>>

---------------------------------------------------------------------------
(* The release lookup: ValidateURL, GetUserToken, InitializeClient,        *)
(* FillEntrys.                                                             *)

Lowers == <<"a", "b", "c", "d", "e", "f", "g", "h", "i", "j", "k", "l", "m",
            "n", "o", "p", "q", "r", "s", "t", "u", "v", "w", "x", "y", "z">>

Uppers == <<"A", "B", "C", "D", "E", "F", "G", "H", "I", "J", "K", "L", "M",
            "N", "O", "P", "Q", "R", "S", "T", "U", "V", "W", "X", "Y", "Z">>

IsLower(c) == \E i \in 1..Len(Lowers) : Lowers[i] = c

IsUpper(c) == \E i \in 1..Len(Uppers) : Uppers[i] = c

LowerChar(c) == IF IsUpper(c)
                THEN Lowers[CHOOSE i \in 1..Len(Uppers) : Uppers[i] = c]
                ELSE c

UpperChar(c) == IF IsLower(c)
                THEN Uppers[CHOOSE i \in 1..Len(Lowers) : Lowers[i] = c]
                ELSE c

\* str.lower()
lower(s) == [i \in 1..Len(s) |-> LowerChar(s[i])]

\* str.title(): a cased character is upper case after an uncased one (or at
\* the start) and lower case after a cased one.
title(s) ==
    [i \in 1..Len(s) |->
        IF i > 1 /\ (IsLower(s[i - 1]) \/ IsUpper(s[i - 1]))
        THEN LowerChar(s[i]) ELSE UpperChar(s[i])]

\* The first position (from 1) of s holding a character of chars, or
\* Len(s) + 1.
FirstOf(s, chars) ==
    IF \E i \in 1..Len(s) : s[i] \in chars
    THEN CHOOSE i \in 1..Len(s) :
             s[i] \in chars /\ \A j \in 1..(i - 1) : s[j] \notin chars
    ELSE Len(s) + 1

SchemeChars == {Lowers[i] : i \in 1..Len(Lowers)}
               \cup {Uppers[i] : i \in 1..Len(Uppers)}
               \cup DigitChars \cup {"+", "-", "."}

\* urllib.parse.urlparse(url): scheme, netloc and path.
urlparse(url) ==
    LET i == FirstOf(url, {":"})
        has_scheme == /\ i > 1
                      /\ i <= Len(url)
                      /\ IsLower(url[1]) \/ IsUpper(url[1])
                      /\ \A j \in 1..(i - 1) : url[j] \in SchemeChars
        rest == IF has_scheme THEN SliceFrom(url, i) ELSE url
        has_netloc == SliceTo(rest, 2) = <<"/", "/">>
        after == SliceFrom(rest, 2)
        delim == FirstOf(after, {"/", "?", "#"})
        tail == IF has_netloc THEN SubSeq(after, delim, Len(after)) ELSE rest
    IN [scheme |-> IF has_scheme THEN lower(SubSeq(url, 1, i - 1)) ELSE <<>>,
        netloc |-> IF has_netloc THEN SubSeq(after, 1, delim - 1) ELSE <<>>,
        path |-> SubSeq(tail, 1, FirstOf(tail, {"?", "#"}) - 1)]

S_http == <<"h", "t", "t", "p">>

S_https == <<"h", "t", "t", "p", "s">>

S_discogs == <<"d", "i", "s", "c", "o", "g", "s", ".", "c", "o", "m">>

S_www_discogs == <<"w", "w", "w", ".">> \o S_discogs

S_release == <<"r", "e", "l", "e", "a", "s", "e">>

\* valid_URL and release_path after the host test of ValidateURL.
ReleasePath(URL_str) ==
    LET release_URL == urlparse(URL_str)
        valid(path) == [valid_URL |-> TRUE, release_path |-> path]
        invalid == [valid_URL |-> FALSE, release_path |-> <<>>]
    IN IF release_URL.scheme = S_https \/ release_URL.scheme = S_http
       THEN IF release_URL.netloc = S_www_discogs
               \/ release_URL.netloc = S_discogs
            THEN valid(release_URL.path) ELSE invalid
       ELSE IF release_URL.scheme = <<>> /\ release_URL.netloc = <<>>
       THEN IF SliceTo(release_URL.path, 11) = S_discogs
            THEN valid(SliceFrom(release_URL.path, 11))
            ELSE IF SliceTo(release_URL.path, 15) = S_www_discogs
            THEN valid(SliceFrom(release_URL.path, 15))
            ELSE invalid
       ELSE invalid

\* What the Discogs client returns for a release number; `raises` where any
\* access raises (not found, no network, bad token).  Release 1 is complete
\* and has MaxTracks tracks; release 2 lists no style; release 3 is an
\* album of AlbumSize tracks.
Track(k) == <<"s", "o", "n", "g", " ">> \o str(k)

\* Number of files and tracks of the album.
AlbumSize == 10

Release(number) ==
    IF number = <<"1">>
    THEN [raises |-> FALSE, artists |-> <<<<"a", "b">>>>, title |-> <<"l", "p">>,
          styles |-> <<<<"r", "o", "c", "k">>>>, labels |-> <<<<"x">>>>,
          year |-> 1999, tracklist |-> [k \in 1..MaxTracks |-> Track(k)]]
    ELSE IF number = <<"2">>
    THEN [raises |-> FALSE, artists |-> <<<<"c">>>>, title |-> <<"e", "p">>,
          styles |-> <<>>, labels |-> <<<<"y">>>>,
          year |-> 2001, tracklist |-> <<Track(1)>>]
    ELSE IF number = <<"3">>
    THEN [raises |-> FALSE, artists |-> <<<<"d">>>>, title |-> <<"l", "p">>,
          styles |-> <<<<"p", "o", "p">>>>, labels |-> <<<<"z">>>>,
          year |-> 2005, tracklist |-> [k \in 1..AlbumSize |-> Track(k)]]
    ELSE [raises |-> TRUE, artists |-> <<>>, title |-> <<>>, styles |-> <<>>,
          labels |-> <<>>, year |-> 0, tracklist |-> <<>>]

\* self.client.release(number) and the lazy fetch behind it: `up` is whether
\* the Discogs service answers this call (network, rate limit).
Fetch(number, up) == IF up THEN Release(number) ELSE Release(<<>>)

\* The number of the statement of FillEntrys's try block that raises for a
\* release (0: none does).
RaisesAt(release) ==
    IF release.raises THEN 1
    ELSE IF release.artists = <<>> THEN 1
    ELSE IF release.styles = <<>> THEN 4
    ELSE IF release.labels = <<>> THEN 5
    ELSE 0

\* Whether statement k of the try block runs to its end.
Ran(release, k) == RaisesAt(release) = 0 \/ RaisesAt(release) > k

\* The lines the loop over release.tracklist inserts in the listbox:
\* f'{i}. {track_title.title.title()}', i counting from 1.
Numbered(tracklist) ==
    [k \in 1..Len(tracklist) |->
        str(k) \o <<".", " ">> \o title(tracklist[k])]

\* FillEntrys: the entry variables, the listbox, data_loaded and the number
\* of error boxes after it.
FillEntrys(number, up, vars_, lb, loaded) ==
    LET release == Fetch(number, up)
    IN [entry |->
            [n \in DOMAIN vars_ |->
                CASE n = "artist" /\ Ran(release, 1) ->
                         title(release.artists[1])
                  [] n = "album_artist" /\ Ran(release, 2) ->
                         title(release.artists[1])
                  [] n = "album" /\ Ran(release, 3) -> title(release.title)
                  [] n = "genre" /\ Ran(release, 4) ->
                         title(release.styles[1])
                  [] n = "publisher" /\ Ran(release, 5) ->
                         title(release.labels[1])
                  [] n = "release_date" /\ Ran(release, 6) ->
                         str(release.year)
                  [] OTHER -> vars_[n]],
        listbox |->
            IF RaisesAt(release) = 0 THEN lb \o Numbered(release.tracklist)
            ELSE lb,
        data_loaded |-> IF RaisesAt(release) = 0 THEN TRUE ELSE loaded,
        errors |-> IF RaisesAt(release) = 0 THEN 0 ELSE 1,
        lookup |-> IF RaisesAt(release) = 0 THEN "loaded" ELSE "failed"]

\* self.release_number before ValidateURL first assigns it.
NoNumber == <<None>>

\* The token pop-ups on screen: `older` counts those opened before the one
\* self.token_win and self.user_token refer to; `latest` is whether that one
\* is on screen.
NoTokenWins == [older |-> 0, latest |-> FALSE]

GetUserToken(wins) ==
    [older |-> wins.older + (IF wins.latest THEN 1 ELSE 0), latest |-> TRUE]

\* The most token pop-ups the model lets the user open.
MaxTokenWins == 2

\* ValidateURL were it not to test the second piece of the path.
ValidateURL_AnyPage(up) ==
    LET URL_str == strip(entry["URL"])
        checked == ReleasePath(URL_str)
        path_split == split(checked.release_path, "/")
        number == split(path_split[3], "-")[1]
        filled == FillEntrys(number, up, entry, listbox, data_loaded)
        stop(fault, errors) ==
            /\ last' = Report("ValidateURL", NoArg, fault, errors, 0, <<>>)
            /\ UNCHANGED <<listbox, data_loaded, entry, release_number,
                           token_wins>>
    IN /\ IF data_loaded THEN stop(None, 1)
          ELSE IF URL_str = <<>> THEN stop(None, 0)
          ELSE IF ~checked.valid_URL THEN stop(None, 1)
          ELSE IF Len(path_split) < 3 THEN stop("IndexError", 0)
          ELSE /\ release_number' = number
               /\ IF token_flag
                  THEN /\ entry' = filled.entry
                       /\ listbox' = filled.listbox
                       /\ data_loaded' = filled.data_loaded
                       /\ last' = [Report("ValidateURL", NoArg, None,
                                          filled.errors, 0, <<>>)
                                       EXCEPT !.lookup = filled.lookup]
                       /\ UNCHANGED token_wins
                  ELSE /\ GetUserToken(token_wins).older < MaxTokenWins
                       /\ token_wins' = GetUserToken(token_wins)
                       /\ last' = Report("ValidateURL", NoArg, None, 0, 0, <<>>)
                       /\ UNCHANGED <<entry, listbox, data_loaded>>
       /\ UNCHANGED <<added_files, tree, files_loaded, token_flag, edit,
                      disk, inaccessible>>

ValidateURL(up) ==
    LET URL_str == strip(entry["URL"])
        checked == ReleasePath(URL_str)
        path_split == split(checked.release_path, "/")
        number == split(path_split[3], "-")[1]
        filled == FillEntrys(number, up, entry, listbox, data_loaded)
        stop(fault, errors) ==
            /\ last' = Report("ValidateURL", NoArg, fault, errors, 0, <<>>)
            /\ UNCHANGED <<listbox, data_loaded, entry, release_number,
                           token_wins>>
    IN /\ IF data_loaded THEN stop(None, 1)
          ELSE IF URL_str = <<>> THEN stop(None, 0)
          ELSE IF ~checked.valid_URL THEN stop(None, 1)
          ELSE IF Len(path_split) < 2 THEN stop("IndexError", 0)
          ELSE IF path_split[2] # S_release THEN stop(None, 1)
          ELSE IF Len(path_split) < 3 THEN stop("IndexError", 0)
          ELSE /\ release_number' = number
               /\ IF token_flag
                  THEN /\ entry' = filled.entry
                       /\ listbox' = filled.listbox
                       /\ data_loaded' = filled.data_loaded
                       /\ last' = [Report("ValidateURL", NoArg, None,
                                          filled.errors, 0, <<>>)
                                       EXCEPT !.lookup = filled.lookup]
                       /\ UNCHANGED token_wins
                  ELSE /\ GetUserToken(token_wins).older < MaxTokenWins
                       /\ token_wins' = GetUserToken(token_wins)
                       /\ last' = Report("ValidateURL", NoArg, None, 0, 0, <<>>)
                       /\ UNCHANGED <<entry, listbox, data_loaded>>
       /\ UNCHANGED <<added_files, tree, files_loaded, token_flag, edit,
                      disk, inaccessible>>

\* The Submit button of a token pop-up.  self.user_token is the variable of
\* the latest pop-up: the user can type in it while that pop-up is on
\* screen (`typed`); afterwards it keeps its text.
InitializeClient(typed, up) ==
    LET text == IF token_wins.latest THEN typed ELSE entry["user_token"]
        token == rstrip(lstrip(text))
        filled == FillEntrys(release_number, up,
                             [entry EXCEPT !["user_token"] = text],
                             listbox, data_loaded)
    IN /\ token_wins.latest \/ token_wins.older > 0
       /\ IF token = <<>>
          THEN /\ entry' = [entry EXCEPT !["user_token"] = text]
               /\ last' = Report("InitializeClient", NoArg, None, 0, 0, <<>>)
               /\ UNCHANGED <<token_flag, token_wins, listbox, data_loaded>>
          ELSE /\ token_flag' = TRUE
               /\ token_wins' = [token_wins EXCEPT !.latest = FALSE]
               /\ entry' = filled.entry
               /\ listbox' = filled.listbox
               /\ data_loaded' = filled.data_loaded
               /\ last' = [Report("InitializeClient", NoArg, None,
                                  filled.errors, 0, <<>>)
                               EXCEPT !.lookup = filled.lookup]
       /\ UNCHANGED <<added_files, tree, files_loaded, release_number, edit,
                      disk, inaccessible>>

---------------------------------------------------------------------------
(* The user and the file system.                                           *)

\* The user types `text` into the entry box of variable `name`.
Type(name, text) ==
    /\ entry' = [entry EXCEPT ![name] = text]
    /\ last' = Report("Type", NoArg, None, 0, 0, <<>>)
    /\ UNCHANGED <<added_files, tree, listbox, files_loaded, data_loaded,
                   token_flag, release_number, token_wins, edit, disk,
                   inaccessible>>

\* A file becomes unreadable for mutagen (moved, locked, damaged), or
\* readable again.
SetAccess(p) ==
    /\ inaccessible' = IF p \in inaccessible THEN inaccessible \ {p}
                       ELSE inaccessible \cup {p}
    /\ last' = Report("SetAccess", NoArg, None, 0, 0, <<>>)
    /\ UNCHANGED <<added_files, tree, listbox, files_loaded, data_loaded,
                   token_flag, entry, release_number, token_wins, edit, disk>>

---------------------------------------------------------------------------
(* The window after __init__, and the events the user can raise.           *)

\* The StringVars of the window.
EntryNames == ResetNames \cup {"user_token"}

Init ==
    /\ added_files = <<>>
    /\ tree = <<>>
    /\ listbox = <<>>
    /\ files_loaded = FALSE
    /\ data_loaded = FALSE
    /\ token_flag = FALSE
    /\ entry = [n \in EntryNames |-> <<>>]
    /\ release_number = NoNumber
    /\ token_wins = NoTokenWins
    /\ edit = NoEdit
    /\ disk = [p \in Paths |-> InitTags(p)]
    /\ inaccessible = {}
    /\ last = Report("__init__", NoArg, None, 0, 0, <<>>)
    /\ steps = 0

\* The selections of the file dialog: lists of distinct paths.
Selections ==
    UNION {{f \in [1..n -> Paths] : \A i, j \in 1..n : i # j => f[i] # f[j]}
           : n \in 0..NumPaths}

\* Texts the user types.
URL_release == S_discogs \o <<"/">> \o S_release \o <<"/", "1", "-", "x">>

URL_master == S_discogs \o <<"/", "m", "a", "s", "t", "e", "r", "/", "1">>

EditTexts == {<<>>, <<" ">>, <<"1">>, <<"x">>}

TokenTexts == {<<" ">>, <<"k">>}

Typed == {<<"URL", URL_release>>, <<"URL", URL_master>>,
          <<"URL", S_discogs>>, <<"URL", <<" ">>>>,
          <<"album", <<"a", " ">>>>}

\* One more event is served.
Tick == steps < MaxSteps /\ steps' = steps + 1

Next ==
    \/ Tick /\ \E files \in Selections : AddFiles(files)
    \/ Tick /\ \E tag \in {"Album", "TrackTotal"}, ask \in BOOLEAN :
                   SendData(tag, ask)
    \/ Tick /\ UpdateAll
    \/ Tick /\ \E proceed \in {"yes", "no"}, ask \in BOOLEAN :
                   CopyTracklist(proceed, ask)
    \/ Tick /\ \E ask \in BOOLEAN : CopyTrackNumbers(ask)
    \/ Tick /\ SortByTrackNumber
    \/ Tick /\ \E row \in 0..(NumPaths - 1), column \in {"#1", "#2", "#6"} :
                   DoubleClick(row, column)
    \/ Tick /\ RestoreDoubleClick
    \/ Tick /\ \E text \in EditTexts, ask \in BOOLEAN : UpdateField(text, ask)
    \/ Tick /\ ResetWindow
    \/ Tick /\ \E up \in BOOLEAN : ValidateURL(up)
    \/ Tick /\ \E typed \in TokenTexts, up \in BOOLEAN :
                   InitializeClient(typed, up)
    \/ Tick /\ \E t \in Typed : Type(t[1], t[2])
    \/ Tick /\ \E p \in Paths : SetAccess(p)

Spec == Init /\ [][Next]_vars

---------------------------------------------------------------------------
(* A session that starts when the user has looked release 1 up: the URL    *)
(* typed, ValidateURL clicked, the token submitted.                        *)

LookedUp ==
    FillEntrys(<<"1">>, TRUE,
               [n \in EntryNames |-> IF n = "URL" THEN URL_release
                                     ELSE IF n = "user_token" THEN <<"k">>
                                     ELSE <<>>],
               <<>>, FALSE)

InitLookedUp ==
    /\ added_files = <<>>
    /\ tree = <<>>
    /\ listbox = LookedUp.listbox
    /\ files_loaded = FALSE
    /\ data_loaded = LookedUp.data_loaded
    /\ token_flag = TRUE
    /\ entry = LookedUp.entry
    /\ release_number = <<"1">>
    /\ token_wins = NoTokenWins
    /\ edit = NoEdit
    /\ disk = [p \in Paths |-> InitTags(p)]
    /\ inaccessible = {}
    /\ last = Report("InitializeClient", NoArg, None, 0, 0, <<>>)
    /\ steps = 0

\* The events of the batch buttons on a loaded working set.
NextBatch ==
    \/ Tick /\ \E files \in Selections : AddFiles(files)
    \/ Tick /\ \E tag \in {"Album", "TrackTotal"}, ask \in BOOLEAN :
                   SendData(tag, ask)
    \/ Tick /\ UpdateAll
    \/ Tick /\ \E proceed \in {"yes", "no"}, ask \in BOOLEAN :
                   CopyTracklist(proceed, ask)
    \/ Tick /\ SortByTrackNumber
    \/ Tick /\ \E p \in Paths : SetAccess(p)

SpecBatch == InitLookedUp /\ [][NextBatch]_vars

\* The events that load and unload files.
NextAdd ==
    \/ Tick /\ \E files \in Selections : AddFiles(files)
    \/ Tick /\ ResetWindow
    \/ Tick /\ \E p \in Paths : SetAccess(p)

SpecAdd == Init /\ [][NextAdd]_vars

---------------------------------------------------------------------------
(* A session that starts with an album of AlbumSize files loaded (one      *)
(* AddFiles of the files 1..AlbumSize, every one readable) and the titles  *)
(* of a release of as many tracks in the listbox.                          *)

AlbumPaths == 1..AlbumSize

AlbumDisk == [p \in AlbumPaths |-> InitTags(p)]

URL_album == S_discogs \o <<"/">> \o S_release \o <<"/", "3">>

LookedUpAlbum ==
    FillEntrys(<<"3">>, TRUE,
               [n \in EntryNames |-> IF n = "URL" THEN URL_album
                                     ELSE IF n = "user_token" THEN <<"k">>
                                     ELSE <<>>],
               <<>>, FALSE)

InitAlbum ==
    /\ added_files = [k \in 1..AlbumSize |-> k]
    /\ tree = AddLoop([k \in 1..AlbumSize |-> k], 0, <<>>, {}, 0, AlbumDisk,
                      {}).tree
    /\ listbox = LookedUpAlbum.listbox
    /\ files_loaded = TRUE
    /\ data_loaded = LookedUpAlbum.data_loaded
    /\ token_flag = TRUE
    /\ entry = LookedUpAlbum.entry
    /\ release_number = <<"3">>
    /\ token_wins = NoTokenWins
    /\ edit = NoEdit
    /\ disk = AlbumDisk
    /\ inaccessible = {}
    /\ last = Report("AddFiles", [k \in 1..AlbumSize |-> k], None, 0, 0, <<>>)
    /\ steps = 0

NextAlbum ==
    \/ Tick /\ \E proceed \in {"yes", "no"}, ask \in BOOLEAN :
                   CopyTracklist(proceed, ask)
    \/ Tick /\ \E ask \in BOOLEAN : CopyTrackNumbers(ask)
    \/ Tick /\ \E p \in AlbumPaths : SetAccess(p)

SpecAlbum == InitAlbum /\ [][NextAlbum]_vars

---------------------------------------------------------------------------
(* A session in which the user only selects files, files becoming          *)
(* readable and unreadable in between.                                     *)

NextLoad ==
    \/ Tick /\ \E files \in Selections : AddFiles(files)
    \/ Tick /\ \E p \in Paths : SetAccess(p)

SpecLoad == Init /\ [][NextLoad]_vars

---------------------------------------------------------------------------
(* A session that starts when the user has looked release 1 up, loaded the *)
(* files 1..NumPaths with one AddFiles and clicked the '#' heading once.   *)

LoadedRows ==
    AddLoop([k \in 1..NumPaths |-> k], 0, <<>>, {}, 0,
            [p \in Paths |-> InitTags(p)], {}).tree

InitSorted ==
    /\ added_files = Rebuild(SortRows(LoadedRows), 1,
                             [k \in 1..NumPaths |-> k], <<>>).added_files
    /\ tree = Restripe(SortRows(LoadedRows))
    /\ listbox = LookedUp.listbox
    /\ files_loaded = TRUE
    /\ data_loaded = LookedUp.data_loaded
    /\ token_flag = TRUE
    /\ entry = LookedUp.entry
    /\ release_number = <<"1">>
    /\ token_wins = NoTokenWins
    /\ edit = NoEdit
    /\ disk = [p \in Paths |-> InitTags(p)]
    /\ inaccessible = {}
    /\ last = Report("SortByTrackNumber", NoArg, None, 0, 0, <<>>)
    /\ steps = 0

NextSorted ==
    \/ Tick /\ \E tag \in {"Album", "TrackTotal"}, ask \in BOOLEAN :
                   SendData(tag, ask)
    \/ Tick /\ UpdateAll
    \/ Tick /\ \E proceed \in {"yes", "no"}, ask \in BOOLEAN :
                   CopyTracklist(proceed, ask)
    \/ Tick /\ SortByTrackNumber
    \/ Tick /\ \E p \in Paths : SetAccess(p)

SpecSorted == InitSorted /\ [][NextSorted]_vars

---------------------------------------------------------------------------
(* A session that starts when the user has looked release 1 up and loaded  *)
(* the files 1..NumPaths with one AddFiles, and then uses the batch        *)
(* buttons and the edit pop-up.                                            *)

InitLoaded ==
    /\ added_files = [k \in 1..NumPaths |-> k]
    /\ tree = LoadedRows
    /\ listbox = LookedUp.listbox
    /\ files_loaded = TRUE
    /\ data_loaded = LookedUp.data_loaded
    /\ token_flag = TRUE
    /\ entry = LookedUp.entry
    /\ release_number = <<"1">>
    /\ token_wins = NoTokenWins
    /\ edit = NoEdit
    /\ disk = [p \in Paths |-> InitTags(p)]
    /\ inaccessible = {}
    /\ last = Report("AddFiles", [k \in 1..NumPaths |-> k], None, 0, 0, <<>>)
    /\ steps = 0

NextLoaded ==
    \/ Tick /\ \E tag \in {"Album", "TrackTotal"}, ask \in BOOLEAN :
                   SendData(tag, ask)
    \/ Tick /\ UpdateAll
    \/ Tick /\ \E proceed \in {"yes", "no"}, ask \in BOOLEAN :
                   CopyTracklist(proceed, ask)
    \/ Tick /\ \E ask \in BOOLEAN : CopyTrackNumbers(ask)
    \/ Tick /\ \E row \in 0..(NumPaths - 1), column \in {"#1", "#2", "#6"} :
                   DoubleClick(row, column)
    \/ Tick /\ RestoreDoubleClick
    \/ Tick /\ \E text \in EditTexts, ask \in BOOLEAN : UpdateField(text, ask)
    \/ Tick /\ \E p \in Paths : SetAccess(p)

SpecLoaded == InitLoaded /\ [][NextLoaded]_vars

---------------------------------------------------------------------------
(* A session that starts when the user has loaded the files 1..NumPaths    *)
(* with one AddFiles, the files holding any of a few TrackNumber tags      *)
(* (none, '1', '2', '02', 'x'), and then sorts.                            *)

TrackNumberTags ==
    {<<>>, <<<<"1">>>>, <<<<"2">>>>, <<<<"0", "2">>>>, <<<<"x">>>>}

\* The files 1..NumPaths with the TrackNumber tags numbers[p].
NumberedDisk(numbers) ==
    [p \in Paths |-> [InitTags(p) EXCEPT !["TrackNumber"] = numbers[p]]]

InitSort ==
    \E numbers \in [Paths -> TrackNumberTags] :
        /\ added_files = [k \in 1..NumPaths |-> k]
        /\ tree = AddLoop([k \in 1..NumPaths |-> k], 0, <<>>, {}, 0,
                          NumberedDisk(numbers), {}).tree
        /\ listbox = <<>>
        /\ files_loaded = TRUE
        /\ data_loaded = FALSE
        /\ token_flag = FALSE
        /\ entry = [n \in EntryNames |-> <<>>]
        /\ release_number = NoNumber
        /\ token_wins = NoTokenWins
        /\ edit = NoEdit
        /\ disk = NumberedDisk(numbers)
        /\ inaccessible = {}
        /\ last = Report("AddFiles", [k \in 1..NumPaths |-> k], None, 0, 0,
                         <<>>)
        /\ steps = 0

NextSort ==
    \/ Tick /\ SortByTrackNumber
    \/ Tick /\ \E ask \in BOOLEAN : SendData("Album", ask)
    \/ Tick /\ \E p \in Paths : SetAccess(p)

SpecSort == InitSort /\ [][NextSort]_vars

---------------------------------------------------------------------------
(* The session of InitSorted (release looked up, files 1..NumPaths loaded  *)
(* and sorted once) in which the user sorts, edits cells and fills the     *)
(* track numbers.                                                          *)

NextSortedEdit ==
    \/ Tick /\ SortByTrackNumber
    \/ Tick /\ \E row \in 0..(NumPaths - 1), column \in {"#1", "#2", "#6"} :
                   DoubleClick(row, column)
    \/ Tick /\ \E text \in EditTexts, ask \in BOOLEAN : UpdateField(text, ask)
    \/ Tick /\ \E ask \in BOOLEAN : CopyTrackNumbers(ask)
    \/ Tick /\ \E p \in Paths : SetAccess(p)

SpecSortedEdit == InitSorted /\ [][NextSortedEdit]_vars

---------------------------------------------------------------------------
(* A session that starts with the files 1..NumPaths loaded by one AddFiles *)
(* and either no release looked up (an empty listbox) or release 1 looked  *)
(* up, and in which the user copies titles and track numbers.              *)

\* The window before any lookup: the entry boxes and the listbox empty.
NotLookedUp ==
    [entry |-> [n \in EntryNames |-> <<>>], listbox |-> <<>>,
     data_loaded |-> FALSE, errors |-> 0, lookup |-> None]

InitTitles ==
    \E looked \in BOOLEAN :
        LET lookup == IF looked THEN LookedUp ELSE NotLookedUp
        IN /\ added_files = [k \in 1..NumPaths |-> k]
           /\ tree = LoadedRows
           /\ listbox = lookup.listbox
           /\ files_loaded = TRUE
           /\ data_loaded = lookup.data_loaded
           /\ token_flag = looked
           /\ entry = lookup.entry
           /\ release_number = IF looked THEN <<"1">> ELSE NoNumber
           /\ token_wins = NoTokenWins
           /\ edit = NoEdit
           /\ disk = [p \in Paths |-> InitTags(p)]
           /\ inaccessible = {}
           /\ last = Report("AddFiles", [k \in 1..NumPaths |-> k], None, 0,
                            0, <<>>)
           /\ steps = 0

NextTitles ==
    \/ Tick /\ \E proceed \in {"yes", "no"}, ask \in BOOLEAN :
                   CopyTracklist(proceed, ask)
    \/ Tick /\ \E ask \in BOOLEAN : CopyTrackNumbers(ask)
    \/ Tick /\ \E p \in Paths : SetAccess(p)

SpecTitles == InitTitles /\ [][NextTitles]_vars

---------------------------------------------------------------------------
(* A session of the entry boxes and the pop-ups: the user types, clicks    *)
(* 'Click To Load URL Data', submits tokens, edits cells and resets.  It   *)
(* starts either from the window after __init__ or from the window with a  *)
(* release looked up and the files 1..NumPaths loaded.                     *)

InitEntry == Init \/ InitLoaded

NextEntry ==
    \/ Tick /\ \E t \in Typed : Type(t[1], t[2])
    \/ Tick /\ \E up \in BOOLEAN : ValidateURL(up)
    \/ Tick /\ \E typed \in TokenTexts, up \in BOOLEAN :
                   InitializeClient(typed, up)
    \/ Tick /\ \E row \in 0..(NumPaths - 1), column \in {"#1", "#2", "#6"} :
                   DoubleClick(row, column)
    \/ Tick /\ RestoreDoubleClick
    \/ Tick /\ \E text \in EditTexts, ask \in BOOLEAN : UpdateField(text, ask)
    \/ Tick /\ ResetWindow

SpecEntry == InitEntry /\ [][NextEntry]_vars

---------------------------------------------------------------------------
(* A session of the release lookup.  It starts with the files 1..NumPaths  *)
(* loaded, the URL of a release in the URL box and no token given yet, the *)
(* user having clicked 'Click To Load URL Data' up to MaxTokenWins times   *)
(* (every click opened one more token pop-up).  Release 2 lists no style:  *)
(* FillEntrys raises for it after it has set three entry boxes.            *)

URL_release2 == S_discogs \o <<"/">> \o S_release \o <<"/", "2">>

LookupURLs == {URL_release, URL_release2}

\* The release number ValidateURL assigns to release_number for
\* one of the URLs above.
NumberOf(url) == split(split(ReleasePath(url).release_path, "/")[3], "-")[1]

\* The token pop-ups after n clicks.
RECURSIVE TokenWinsAfter(_)
TokenWinsAfter(n) == IF n = 0 THEN NoTokenWins
                     ELSE GetUserToken(TokenWinsAfter(n - 1))

InitLookup ==
    \E url \in LookupURLs, n \in 0..MaxTokenWins :
        /\ added_files = [k \in 1..NumPaths |-> k]
        /\ tree = LoadedRows
        /\ listbox = <<>>
        /\ files_loaded = TRUE
        /\ data_loaded = FALSE
        /\ token_flag = FALSE
        /\ entry = [m \in EntryNames |-> IF m = "URL" THEN url ELSE <<>>]
        /\ release_number = IF n = 0 THEN NoNumber ELSE NumberOf(url)
        /\ token_wins = TokenWinsAfter(n)
        /\ edit = NoEdit
        /\ disk = [p \in Paths |-> InitTags(p)]
        /\ inaccessible = {}
        /\ last = IF n = 0
                  THEN Report("Type", NoArg, None, 0, 0, <<>>)
                  ELSE Report("ValidateURL", NoArg, None, 0, 0, <<>>)
        /\ steps = 0

NextLookup ==
    \/ Tick /\ \E url \in LookupURLs : Type("URL", url)
    \/ Tick /\ \E up \in BOOLEAN : ValidateURL(up)
    \/ Tick /\ \E typed \in TokenTexts, up \in BOOLEAN :
                   InitializeClient(typed, up)
    \/ Tick /\ ResetWindow

SpecLookup == InitLookup /\ [][NextLookup]_vars

---------------------------------------------------------------------------
(* A session of loading, writing and removing.  It starts with release 1   *)
(* looked up and the files 1..NumPaths loaded, one of which may have       *)
(* become unreadable since; the user sends data, fills track numbers,      *)
(* edits cells, resets the window and loads files again.                   *)

InitLife ==
    \E bad \in {{}} \cup {{p} : p \in Paths} :
        /\ added_files = [k \in 1..NumPaths |-> k]
        /\ tree = LoadedRows
        /\ listbox = LookedUp.listbox
        /\ files_loaded = TRUE
        /\ data_loaded = LookedUp.data_loaded
        /\ token_flag = TRUE
        /\ entry = LookedUp.entry
        /\ release_number = <<"1">>
        /\ token_wins = NoTokenWins
        /\ edit = NoEdit
        /\ disk = [p \in Paths |-> InitTags(p)]
        /\ inaccessible = bad
        /\ last = Report("SetAccess", NoArg, None, 0, 0, <<>>)
        /\ steps = 0

\* The selections of one file, and the selection of all of them.
Reselections == {<<p>> : p \in Paths} \cup {[k \in 1..NumPaths |-> k]}

NextLife ==
    \/ Tick /\ \E ask \in BOOLEAN : SendData("Album", ask)
    \/ Tick /\ UpdateAll
    \/ Tick /\ \E ask \in BOOLEAN : CopyTrackNumbers(ask)
    \/ Tick /\ \E row \in 0..(NumPaths - 1) : DoubleClick(row, "#6")
    \/ Tick /\ \E ask \in BOOLEAN : UpdateField(<<"x">>, ask)
    \/ Tick /\ ResetWindow
    \/ Tick /\ \E files \in Reselections : AddFiles(files)
    \/ Tick /\ \E p \in Paths : SetAccess(p)

SpecLife == InitLife /\ [][NextLife]_vars

---------------------------------------------------------------------------
(* The session of InitSorted (release looked up, files 1..NumPaths loaded  *)
(* and sorted once) in which every file stays readable: the user sends the *)
(* album, copies titles and track numbers, edits cells and sorts.  No      *)
(* write fails, so no removal prompt is shown.                             *)

NextWrites ==
    \/ Tick /\ SendData("Album", TRUE)
    \/ Tick /\ CopyTracklist("yes", TRUE)
    \/ Tick /\ CopyTrackNumbers(TRUE)
    \/ Tick /\ \E row \in 0..(NumPaths - 1), column \in {"#1", "#3", "#6"} :
                   DoubleClick(row, column)
    \/ Tick /\ \E text \in EditTexts : UpdateField(text, TRUE)
    \/ Tick /\ SortByTrackNumber

SpecWrites == InitSorted /\ [][NextWrites]_vars

---------------------------------------------------------------------------
(* A session that starts when the user has looked release 1 up and loaded  *)
(* no file yet: the batch buttons, the file dialog and 'Reset Window'.     *)

NextUnloaded ==
    \/ Tick /\ \E tag \in SendTags, ask \in BOOLEAN : SendData(tag, ask)
    \/ Tick /\ UpdateAll
    \/ Tick /\ \E proceed \in {"yes", "no"}, ask \in BOOLEAN :
                   CopyTracklist(proceed, ask)
    \/ Tick /\ \E ask \in BOOLEAN : CopyTrackNumbers(ask)
    \/ Tick /\ \E files \in Reselections \cup {<<>>} : AddFiles(files)
    \/ Tick /\ ResetWindow
    \/ Tick /\ \E p \in Paths : SetAccess(p)

SpecUnloaded == InitLookedUp /\ [][NextUnloaded]_vars

---------------------------------------------------------------------------
(* A session of the URL box.  It starts from the window after __init__, or *)
(* from the window after a lookup of release 1 and a reset (the token      *)
(* given, release_number still set); the user types URLs, clicks 'Click To *)
(* Load URL Data', submits tokens and resets.                              *)

URL_master_https ==
    S_https \o <<":", "/", "/">> \o S_www_discogs
    \o <<"/", "m", "a", "s", "t", "e", "r", "/", "1">>

\* A URL whose third piece, not its second, is 'release'.
URL_nested == S_discogs \o <<"/", "x", "/">> \o S_release \o <<"/", "1">>

URLTexts == {URL_release, URL_master, URL_master_https, URL_nested}

InitURL ==
    \E given \in BOOLEAN :
        /\ added_files = <<>>
        /\ tree = <<>>
        /\ listbox = <<>>
        /\ files_loaded = FALSE
        /\ data_loaded = FALSE
        /\ token_flag = given
        /\ entry = [n \in EntryNames |->
                       IF given /\ n = "user_token" THEN <<"k">> ELSE <<>>]
        /\ release_number = IF given THEN <<"1">> ELSE NoNumber
        /\ token_wins = NoTokenWins
        /\ edit = NoEdit
        /\ disk = [p \in Paths |-> InitTags(p)]
        /\ inaccessible = {}
        /\ last = IF given THEN Report("ResetWindow", NoArg, None, 0, 0, <<>>)
                  ELSE Report("__init__", NoArg, None, 0, 0, <<>>)
        /\ steps = 0

NextURL ==
    \/ Tick /\ \E t \in Typed \cup {<<"URL", url>> : url \in URLTexts} :
                   Type(t[1], t[2])
    \/ Tick /\ \E up \in BOOLEAN : ValidateURL(up)
    \/ Tick /\ \E typed \in TokenTexts, up \in BOOLEAN :
                   InitializeClient(typed, up)
    \/ Tick /\ ResetWindow

SpecURL == InitURL /\ [][NextURL]_vars

---------------------------------------------------------------------------
(* A session of loading files whose multi-valued tags vary.  Every file    *)
(* holds the list `values` under one of 'Artist', 'AlbumArtist', 'Genre'   *)
(* and nothing under the other two; the lists have one to three values,    *)
(* some ending in ';' or in a blank.                                       *)

MultiKeys == {"Artist", "AlbumArtist", "Genre"}

MultiValues ==
    {<<<<"a">>>>,
     <<<<"a">>, <<"b">>>>,
     <<<<"a">>, <<"b">>, <<"c">>>>,
     <<<<"a">>, <<"b", ";">>>>,
     <<<<"a">>, <<"b", " ">>>>,
     <<<<"a", ";">>, <<"b">>>>}

\* The files 1..NumPaths with song[key] = values.
MultiDisk(key, values) ==
    [p \in Paths |->
        [t \in Tags |-> IF t = key THEN values
                        ELSE IF t \in MultiKeys THEN <<>>
                        ELSE InitTags(p)[t]]]

InitMulti ==
    \E key \in MultiKeys, values \in MultiValues :
        /\ added_files = <<>>
        /\ tree = <<>>
        /\ listbox = <<>>
        /\ files_loaded = FALSE
        /\ data_loaded = FALSE
        /\ token_flag = FALSE
        /\ entry = [n \in EntryNames |-> <<>>]
        /\ release_number = NoNumber
        /\ token_wins = NoTokenWins
        /\ edit = NoEdit
        /\ disk = MultiDisk(key, values)
        /\ inaccessible = {}
        /\ last = Report("__init__", NoArg, None, 0, 0, <<>>)
        /\ steps = 0

NextMulti ==
    \/ Tick /\ \E files \in Selections : AddFiles(files)
    \/ Tick /\ \E p \in Paths : SetAccess(p)

SpecMulti == InitMulti /\ [][NextMulti]_vars

---------------------------------------------------------------------------
(* The session of InitLoaded (release looked up, files 1..NumPaths loaded) *)
(* in which the user edits a cell of any column and presses any 'Send      *)
(* Data' button: UpdateField turns the clicked column into a tag, and      *)
(* UpdateMetadata turns the tag into the column of the cell to set.        *)

NextColumns ==
    \/ Tick /\ \E row \in 0..(NumPaths - 1), column \in Columns :
                   DoubleClick(row, column)
    \/ Tick /\ \E ask \in BOOLEAN : UpdateField(<<"x">>, ask)
    \/ Tick /\ \E tag \in SendTags, ask \in BOOLEAN : SendData(tag, ask)

SpecColumns == InitLoaded /\ [][NextColumns]_vars

---------------------------------------------------------------------------
(* Properties.                                                             *)

\* The paths of a selection that mutagen can open, in selection order.
Loaded(files, bad) == SelectSeq(files, LAMBDA p : Open(p, bad) # None)

\* The elements of sequence s in a set.
Range(s) == {s[k] : k \in 1..Len(s)}

\* The last handler was a SortByTrackNumber that sorted: it showed no error
\* and raised nothing.
Sorted == /\ last.op = "SortByTrackNumber"
          /\ last.errors = 0
          /\ last.fault = None

\* C1: after every completed operation the file-path list is as long as the
\* list of display rows.
C1_RowCountIsFileCount == Len(added_files) = Len(tree)

\* C2: after a successful SortByTrackNumber the file at every position k is
\* the file the row now at position k was created from.
C2_SortPermutesFilesWithRows == Sorted => added_files = Sources(tree)

\* C3: a SortByTrackNumber that follows a successful SortByTrackNumber at
\* once leaves the order of the rows and of the file-path list as it was.
C3_SortIdempotent ==
    [][(Sorted /\ last'.op = "SortByTrackNumber")
       => /\ get_children(tree') = get_children(tree)
          /\ added_files' = added_files]_vars

\* C4: every AddFiles appends the loadable paths of its selection, in
\* selection order, to the file-path list it found, and leaves as many rows
\* as file paths.
C4_AddFilesAppends ==
    [][last'.op = "AddFiles"
       => /\ added_files' = added_files \o Loaded(last'.arg, inaccessible)
          /\ Len(tree') = Len(added_files')]_vars

\* C5: an AddFiles on an empty working set leaves exactly the loadable
\* paths of the selection, in selection order, in the file-path list, one
\* row for each in the same order, and neither a file-path entry nor a row
\* for a path that failed to load.
C5_AddFilesFromEmpty ==
    [][(last'.op = "AddFiles" /\ added_files = <<>> /\ tree = <<>>)
       => /\ added_files' = Loaded(last'.arg, inaccessible)
          /\ Sources(tree') = added_files'
          /\ \A p \in Range(last'.arg) :
                 Open(p, inaccessible) = None
                 => p \notin Range(added_files') \cup Range(Sources(tree'))]_vars

\* C5 witness: the first event made a file unreadable and the second was an
\* AddFiles (on the still empty working set) of that file among others: one
\* error box, fewer file paths than selected paths.
C5_Witness ==
    /\ steps = 2
    /\ last.op = "AddFiles"
    /\ last.errors = 1
    /\ Len(last.arg) = 3
    /\ Len(added_files) = 2
    /\ Len(tree) = 2

TitleCells(tr) == {<<tr[k].iid, tr[k].values["#3"]>> : k \in 1..Len(tr)}

\* C7: a CopyTracklist whose warning the user answers 'no' writes the Title
\* of no file and changes the title cell of no row.
C7_DeclinedCopyTracklistWritesNothing ==
    [][(last'.op = "CopyTracklist" /\ last'.proceed = "no")
       => /\ \A p \in DOMAIN disk : disk'[p]["Title"] = disk[p]["Title"]
          /\ TitleCells(tree') \subseteq TitleCells(tree)]_vars

\* C8: the Title CopyTracklist writes to the file at 1-based position p is
\* the pending title at p without its first 3 characters when p < 10 and
\* without its first 4 characters when p >= 10.
C8_TitlePrefixByPosition ==
    (last.op = "CopyTracklist" /\ Len(last.passes) = 1)
    => LET ps == last.passes[1]
       IN \A k \in ps.tried \ ps.failed :
              disk[ps.files[k + 1]]["Title"]
                  = <<SliceFrom(listbox[k + 1],
                                IF k + 1 < 10 THEN 3 ELSE 4)>>

\* The files whose write failed in pass ps.
FailedFiles(ps) == {ps.files[k + 1] : k \in ps.failed}

\* Pass ps removed the entries of the files whose write failed, and only
\* those, from a file-path list and the rows' sources, which are `files`
\* and `srcs` after it.
RemovedTheFailed(ps, files, srcs) ==
    /\ files = Without(ps.files, ps.failed, 0)
    /\ srcs = SelectSeq(ps.srcs, LAMBDA p : p \notin FailedFiles(ps))

\* C9: a CopyTrackNumbers in which writes failed and the user confirmed the
\* removal leaves the file-path list without the files whose write failed
\* and the rows without the rows of those files, everything else in its
\* order.
C9_CopyTrackNumbersRemovesFailed ==
    (last.op = "CopyTrackNumbers" /\ Len(last.passes) = 1
     /\ last.passes[1].ask)
    => RemovedTheFailed(last.passes[1], added_files, Sources(tree))

\* The file-path list and the rows' sources after pass k of the last
\* handler: those the next pass started from, or those of the state.
FilesAfter(k) == IF k < Len(last.passes) THEN last.passes[k + 1].files
                 ELSE added_files

SourcesAfter(k) == IF k < Len(last.passes) THEN last.passes[k + 1].srcs
                   ELSE Sources(tree)

\* C10: every pass of SendData, UpdateAll or CopyTracklist in which writes
\* failed and the user confirmed the removal leaves the file-path list
\* without the files whose write failed in that pass and the rows without
\* the rows of those files, everything else in its order.
C10_BatchRemovesFailed ==
    last.op \in {"SendData", "UpdateAll", "CopyTracklist"}
    => \A k \in 1..Len(last.passes) :
           last.passes[k].ask
           => RemovedTheFailed(last.passes[k], FilesAfter(k), SourcesAfter(k))

\* The row identifiers after pass k of the last handler.
RowsAfter(k) == IF k < Len(last.passes) THEN last.passes[k + 1].rows
                ELSE get_children(tree)

\* The positions (from 0) of a list of n elements that are not in S, in
\* ascending order.
KeptPositions(n, S) ==
    SelectSeq([i \in 1..n |-> i - 1], LAMBDA i : i \notin S)

\* The elements of seq at the positions not in S, in their order.
Keep(seq, S) ==
    [j \in 1..Len(KeptPositions(Len(seq), S)) |->
        seq[KeptPositions(Len(seq), S)[j] + 1]]

\* Every index RemoveFiles was given in pass ps is a position of both lists.
ValidIndices(ps) ==
    \A i \in ps.bad_files : i >= 0 /\ i < Len(ps.files) /\ i < Len(ps.rows)

\* C11: a RemoveFiles the user confirms, every index of its set S being a
\* valid position, leaves both the file-path list and the rows without the
\* elements at the positions in S: n - |S| elements, the others in their
\* order.
C11_RemoveFilesRemovesPositions ==
    \A k \in 1..Len(last.passes) :
        LET ps == last.passes[k]
        IN (ps.ask /\ ValidIndices(ps))
           => /\ FilesAfter(k) = Keep(ps.files, ps.bad_files)
              /\ RowsAfter(k) = Keep(ps.rows, ps.bad_files)
              /\ Len(FilesAfter(k))
                     = Len(ps.files) - Cardinality(ps.bad_files)
              /\ Len(RowsAfter(k))
                     = Len(ps.rows) - Cardinality(ps.bad_files)

\* C11 witness: the write of UpdateField failed, the user confirmed, and
\* one file and one row are gone.
C11_Witness ==
    /\ last.op = "UpdateField"
    /\ Len(last.passes) = 1
    /\ last.passes[1].ask
    /\ ValidIndices(last.passes[1])
    /\ last.fault = None
    /\ Len(added_files) = NumPaths - 1
    /\ Len(tree) = NumPaths - 1

\* C12: a RemoveFiles whose prompt the user declines leaves the file-path
\* list and the rows as they were, whichever handler called it.
C12_DeclinedRemovalChangesNothing ==
    \A k \in 1..Len(last.passes) :
        LET ps == last.passes[k]
        IN (ps.asked /\ ~ps.ask)
           => /\ FilesAfter(k) = ps.files
              /\ RowsAfter(k) = ps.rows

\* C12 witness: a write of SendData failed, the prompt was shown and
\* declined.
C12_Witness ==
    /\ last.op = "SendData"
    /\ Len(last.passes) = 1
    /\ last.passes[1].asked
    /\ ~last.passes[1].ask
    /\ last.passes[1].failed # {}
    /\ Len(added_files) = NumPaths

\* A cell that holds a decimal numeral.
NumberText(cell) ==
    /\ cell # <<>>
    /\ \A i \in 1..Len(cell) :
           cell[i] \in {"0", "1", "2", "3", "4", "5", "6", "7", "8", "9"}

\* The row of tr that holds the empty TrackNumber cell, if any does.
HasEmptyNumber(tr) == \E k \in 1..Len(tr) : tr[k].values["#1"] = <<>>

\* C13: a SortByTrackNumber on rows of which one holds a TrackNumber cell
\* that is no number (the empty cell included) leaves the order of the rows
\* and of the file-path list as it was, removes nothing, and shows exactly
\* one error.
C13_UnparseableSortAborts ==
    [][(/\ last'.op = "SortByTrackNumber"
        /\ \E k \in 1..Len(tree) : ~NumberText(tree[k].values["#1"]))
       => /\ get_children(tree') = get_children(tree)
          /\ added_files' = added_files
          /\ last'.errors = 1
          /\ last'.fault = None]_vars

\* C13 witness: a SortByTrackNumber on three rows, one with an empty
\* TrackNumber cell and two out of order, has shown its error.
C13_Witness ==
    /\ last.op = "SortByTrackNumber"
    /\ last.errors = 1
    /\ HasEmptyNumber(tree)
    /\ Len(tree) >= 3
    /\ tree[1].values["#1"] = <<"2">>
    /\ tree[2].values["#1"] = <<"1">>

\* The position (from 1) in tr of the row with identifier iid.
PositionOf(tr, iid) == CHOOSE k \in 1..Len(tr) : tr[k].iid = iid

\* C14: after a successful SortByTrackNumber the rows are the rows of
\* before, in ascending order of the integer in their TrackNumber cell, rows
\* of equal number in the order they had.
C14_SortAscendingStable ==
    [][Sorted'
       => /\ Len(tree') = Len(tree)
          /\ Range(get_children(tree')) = Range(get_children(tree))
          /\ \A i, j \in 1..Len(tree') :
                 i < j
                 => LET a == int(tree'[i].values["#1"])
                        b == int(tree'[j].values["#1"])
                    IN /\ a <= b
                       /\ a = b => PositionOf(tree, tree'[i].iid)
                                       < PositionOf(tree, tree'[j].iid)]_vars

\* C14 witness: a successful sort has moved a row up past two rows of equal
\* number ('2' and '02'), which are still in the order they were loaded.
C14_Witness ==
    /\ Sorted
    /\ Len(tree) >= 3
    /\ tree[1].iid = 2
    /\ tree[1].values["#1"] = <<"1">>
    /\ tree[2].iid = 0
    /\ tree[3].iid = 1
    /\ tree[2].values["#1"] # tree[3].values["#1"]
    /\ int(tree[2].values["#1"]) = int(tree[3].values["#1"])

\* The file the row with identifier iid of tr was created from.
SourceOf(tr, iid) == tr[PositionOf(tr, iid)].src

\* C15: an UpdateField that writes, for the clicked row r and a clicked
\* column c that maps to a tag, changes on the disk the field mapped to c of
\* the file row r was created from, to the text entered, and nothing else.
C15_UpdateFieldWritesClickedCell ==
    [][(/\ last'.op = "UpdateField"
        /\ last'.fault = None
        /\ Len(last'.passes) = 1
        /\ last'.passes[1].failed = {}
        /\ ConvertColToTag(edit.clicked_column) # None)
       => disk' = [disk EXCEPT
                      ![SourceOf(tree, edit.clicked_row)]
                       [ConvertColToTag(edit.clicked_column)]
                          = <<last'.arg>>]]_vars

\* C16: a CopyTrackNumbers on n rows whose files are all writable leaves
\* TrackNumber "k" in the file of the row at position k (from 1) and "k" in
\* the TrackNumber cell of that row, for every k in 1..n.
C16_CopyTrackNumbersCountsRows ==
    (/\ last.op = "CopyTrackNumbers"
     /\ Len(last.passes) = 1
     /\ \A k \in 1..Len(tree) : Open(tree[k].src, inaccessible) # None)
    => \A k \in 1..Len(tree) :
           /\ disk[tree[k].src]["TrackNumber"] = <<str(k)>>
           /\ tree[k].values["#1"] = str(k)

\* The positions (from 0) the lockstep walk of pass ps of the last handler
\* goes through: as many as the shortest of the lists it zips.
WalkPositions(ps) ==
    LET n == IF Len(ps.files) < Len(ps.rows) THEN Len(ps.files)
             ELSE Len(ps.rows)
        m == IF last.op = "CopyTracklist" /\ Len(listbox) < n
             THEN Len(listbox) ELSE n
    IN 0..(m - 1)

BatchOps == {"SendData", "UpdateAll", "CopyTracklist", "CopyTrackNumbers"}

\* C17: in every pass of SendData, UpdateAll, CopyTracklist and
\* CopyTrackNumbers a write is attempted for every position of the walk,
\* whatever happened to the writes before it.
C17_BatchAttemptsEveryFile ==
    last.op \in BatchOps
    => \A k \in 1..Len(last.passes) :
           last.passes[k].tried = WalkPositions(last.passes[k])

\* C18: SendData, CopyTracklist and CopyTrackNumbers show the removal
\* prompt once when a write of the batch failed and not at all when none
\* did, and only after a write was attempted for every position.
C18_OnePromptAfterTheBatch ==
    (last.op \in {"SendData", "CopyTracklist", "CopyTrackNumbers"}
     /\ Len(last.passes) = 1)
    => LET ps == last.passes[1]
       IN /\ ps.failed # {} => last.prompts = 1
          /\ ps.failed = {} => last.prompts = 0
          /\ last.prompts > 0 => ps.tried = WalkPositions(ps)

\* C19: no handler ends in an exception that nothing catches.
C19_NoUncaughtFault == last.fault = None

\* The TrackNumber and Title cell of every row, by row identifier.
NumberAndTitleCells(tr) ==
    {<<tr[k].iid, tr[k].values["#1"], tr[k].values["#3"]>> :
        k \in 1..Len(tr)}

\* C20: UpdateAll changes the Title and the TrackNumber of no file and the
\* title and track-number cell of no row.
C20_UpdateAllKeepsTitleAndNumber ==
    [][last'.op = "UpdateAll"
       => /\ \A p \in DOMAIN disk :
                 /\ disk'[p]["Title"] = disk[p]["Title"]
                 /\ disk'[p]["TrackNumber"] = disk[p]["TrackNumber"]
          /\ NumberAndTitleCells(tree') \subseteq NumberAndTitleCells(tree)]_vars

\* C20 witness: an UpdateAll has gone through all seven passes and written
\* the album of the release to a file.
C20_Witness ==
    /\ last.op = "UpdateAll"
    /\ Len(last.passes) = 7
    /\ last.fault = None
    /\ \E p \in DOMAIN disk : /\ disk[p]["Album"] = <<entry["album"]>>
                              /\ disk[p]["TrackTotal"] # <<>>
                              /\ disk[p]["Title"] # <<>>

\* The positions (from 0) of the file-path list beyond the last pending
\* title.
BeyondTitles == {k \in 0..(Len(added_files) - 1) : k >= Len(listbox)}

\* C21: CopyTracklist attempts a write for the first min(#files, #rows,
\* #titles) positions and no other; every file at a position beyond the last
\* pending title keeps its Title and its entry in the file-path list, its
\* row keeps its title cell, and no failure is recorded for it.
C21_CopyTracklistStopsAtTitles ==
    [][(last'.op = "CopyTracklist" /\ Len(last'.passes) = 1)
       => LET ps == last'.passes[1]
              n == Min(Min(Len(added_files), Len(tree)), Len(listbox))
          IN /\ ps.tried = 0..(n - 1)
             /\ \A k \in BeyondTitles :
                    /\ disk'[added_files[k + 1]]["Title"]
                           = disk[added_files[k + 1]]["Title"]
                    /\ k \notin ps.failed \cup ps.bad_files
                    /\ added_files[k + 1] \in Range(added_files')
                    /\ k < Len(tree)
                       => \E j \in 1..Len(tree') :
                              /\ tree'[j].iid = tree[k + 1].iid
                              /\ tree'[j].values["#3"]
                                     = tree[k + 1].values["#3"]]_vars

\* C21 witness: a CopyTracklist on three files and two pending titles has
\* written both titles and left the third file, whose Title is not empty,
\* as it was.
C21_Witness ==
    /\ last.op = "CopyTracklist"
    /\ Len(last.passes) = 1
    /\ last.passes[1].tried = {0, 1}
    /\ last.passes[1].failed = {}
    /\ Len(listbox) = 2
    /\ Len(added_files) = 3
    /\ disk[added_files[1]]["Title"] = <<SliceFrom(listbox[1], 3)>>
    /\ disk[added_files[3]]["Title"] = InitTags(added_files[3])["Title"]
    /\ disk[added_files[3]]["Title"] # <<>>

\* C21 witness of the empty title list: a CopyTracklist with no pending
\* title attempted nothing.
C21_WitnessEmpty ==
    /\ last.op = "CopyTracklist"
    /\ Len(last.passes) = 1
    /\ last.passes[1].tried = {}
    /\ listbox = <<>>
    /\ Len(added_files) = 3

\* A text that is empty once its leading and trailing blanks are removed.
Blank(text) == rstrip(lstrip(text)) = <<>>

\* The step is a handler that left the window, the files and the pop-ups as
\* they were and showed nothing.  The text of the token box is what the
\* user typed, not something the handler did.
SilentNoOp ==
    /\ UNCHANGED <<added_files, tree, listbox, files_loaded, data_loaded,
                   token_flag, release_number, token_wins, edit, disk,
                   inaccessible>>
    /\ [entry' EXCEPT !["user_token"] = entry["user_token"]] = entry
    /\ last'.errors = 0
    /\ last'.prompts = 0
    /\ last'.fault = None

\* C22: ValidateURL with a blank URL, InitializeClient with a blank token
\* and UpdateField with a blank new value change no state, write no file
\* and report no error, in every state.
C22_BlankInputIsSilent ==
    [][(\/ last'.op = "ValidateURL" /\ Blank(entry["URL"])
        \/ last'.op = "InitializeClient" /\ Blank(entry'["user_token"])
        \/ last'.op = "UpdateField" /\ Blank(last'.arg))
       => SilentNoOp]_vars

\* C22 as amended: InitializeClient with a blank token and UpdateField with
\* a blank new value in every state, and ValidateURL with a blank URL in
\* every state in which no release data is loaded, change no state, write
\* no file and report no error.
C22_BlankInputIsSilentUnlessLoaded ==
    [][(\/ last'.op = "ValidateURL" /\ Blank(entry["URL"]) /\ ~data_loaded
        \/ last'.op = "InitializeClient" /\ Blank(entry'["user_token"])
        \/ last'.op = "UpdateField" /\ Blank(last'.arg))
       => SilentNoOp]_vars

\* C22 witness: ValidateURL has run on a URL box holding one blank, no
\* release data loaded.
C22_Witness ==
    /\ last.op = "ValidateURL"
    /\ entry["URL"] = <<" ">>
    /\ ~data_loaded
    /\ last.errors = 0

\* C22 witness of the token: a blank token was submitted in a token pop-up,
\* which is still on screen.
C22_WitnessToken ==
    /\ last.op = "InitializeClient"
    /\ entry["user_token"] = <<" ">>
    /\ token_wins.latest
    /\ ~token_flag

\* C22 witness of the edit pop-up: 'Update Field' was clicked on a blank
\* value, and the pop-up is still on screen.
C22_WitnessField ==
    /\ last.op = "UpdateField"
    /\ last.arg = <<>>
    /\ edit.open
    /\ last.passes = <<>>

\* C23: a release lookup that fails (FillEntrys raising) leaves the
\* file-path list, the rows and the tags of every file as they were,
\* leaves the data-loaded flag false, and shows exactly one error.
C23_FailedLookupKeepsFiles ==
    [][last'.lookup = "failed"
       => /\ added_files' = added_files
          /\ tree' = tree
          /\ disk' = disk
          /\ data_loaded' = FALSE
          /\ last'.errors = 1]_vars

\* The entry boxes FillEntrys fills.
FilledNames == {"artist", "album_artist", "album", "genre", "publisher",
                "release_date"}

\* C25: once release data is loaded, no click of 'Click To Load URL Data'
\* and no Submit of a token pop-up changes an entry box FillEntrys fills or
\* the pending title list, until ResetWindow runs.
C25_NoLookupOnceLoaded ==
    [][(data_loaded /\ last'.op \in {"ValidateURL", "InitializeClient"})
       => /\ listbox' = listbox
          /\ \A n \in FilledNames : entry'[n] = entry[n]]_vars

\* The files pass ps wrote: those at the positions tried that did not fail.
WrittenIn(ps) ==
    {ps.files[k + 1] : k \in {i \in ps.tried \ ps.failed : i < Len(ps.files)}}

\* The files whose entries the RemoveFiles of pass ps took out of the
\* file-path list (none when the user declined or no prompt was shown).
RemovedIn(ps) ==
    IF ps.ask
    THEN {ps.files[k + 1] : k \in {i \in ps.bad_files : i < Len(ps.files)}}
    ELSE {}

\* C24: a file whose entry a confirmed RemoveFiles or ResetWindow removed is
\* written by no later operation until AddFiles loads it again.  Step by
\* step: a handler writes only files that are in the file-path list when it
\* starts; within a handler, a file removed after one pass is in the list
\* of no later pass and not in the list the handler leaves; ResetWindow
\* leaves the list empty; and only AddFiles puts a file into the list.
C24_RemovedFileIsNotWritten ==
    [][/\ \A p \in DOMAIN disk :
              disk'[p] # disk[p]
              => /\ p \in Range(added_files)
                 /\ \E j \in 1..Len(last'.passes) :
                        p \in WrittenIn(last'.passes[j])
       /\ Len(last'.passes) > 0 => last'.passes[1].files = added_files
       /\ \A k \in 1..Len(last'.passes) :
              /\ RemovedIn(last'.passes[k]) \cap Range(added_files') = {}
              /\ \A j \in (k + 1)..Len(last'.passes) :
                     RemovedIn(last'.passes[k])
                         \cap Range(last'.passes[j].files) = {}
       /\ last'.op = "ResetWindow" => added_files' = <<>>
       /\ \A p \in Range(added_files') \ Range(added_files) :
              last'.op = "AddFiles"]_vars

\* C24 witness: file 1 was removed from the three loaded files, and the
\* third event was a SendData that wrote the Album of the two files left
\* and not of file 1, which is readable again.
C24_Witness ==
    /\ steps = 3
    /\ last.op = "SendData"
    /\ Len(last.passes) = 1
    /\ last.passes[1].files = <<2, 3>>
    /\ last.passes[1].tried = {0, 1}
    /\ last.passes[1].failed = {}
    /\ 1 \notin inaccessible
    /\ disk[1]["Album"] = <<>>
    /\ disk[2]["Album"] # <<>>
    /\ disk[3]["Album"] # <<>>

\* C26: when the write of UpdateField fails, RemoveFiles is called with one
\* index, the position of the clicked row; if the user confirms, the row
\* and the file-path entry at that position are removed and nothing else;
\* if not, nothing is; the cell of the row is never set to the new value
\* and no file is written.
C26_FailedEditRemovesOneRow ==
    [][(/\ last'.op = "UpdateField"
        /\ Len(last'.passes) = 1
        /\ last'.passes[1].failed # {})
       => LET ps == last'.passes[1]
              pos == PositionOf(tree, edit.clicked_row) - 1
          IN /\ ps.bad_files = {pos}
             /\ ps.asked
             /\ last'.prompts = 1
             /\ disk' = disk
             /\ IF ps.ask
                THEN /\ added_files' = Keep(added_files, {pos})
                     /\ tree' = Keep(tree, {pos})
                ELSE /\ added_files' = added_files
                     /\ tree' = tree]_vars

\* C26 witness: after a sort that moved the rows, the write of an edit of
\* the second row failed, the user confirmed, and the second row and the
\* second file are gone.
C26_Witness ==
    /\ last.op = "UpdateField"
    /\ Len(last.passes) = 1
    /\ last.passes[1].failed = {1}
    /\ last.passes[1].ask
    /\ last.passes[1].rows # <<0, 1, 2>>
    /\ get_children(tree)
           = <<last.passes[1].rows[1], last.passes[1].rows[3]>>
    /\ added_files = <<last.passes[1].files[1], last.passes[1].files[3]>>

\* The fields that have a column in the rows.
ShownTags == Tags \ {"TrackTotal"}

\* The field of the file has been written: it no longer holds what the file
\* held when the program started.
Written(p, t) == disk[p][t] # InitTags(p)[t]

\* C27: while every write succeeds, for every position k and every field
\* with a column that has been written, the cell of the row at position k
\* holds the value last written to that field of the file at position k of
\* the file-path list.
C27_RowShowsLastWritten ==
    \A k \in 1..Min(Len(added_files), Len(tree)) :
        \A t \in ShownTags :
            Written(added_files[k], t)
            => tree[k].values[ConvertTagToCol(t)] = disk[added_files[k]][t][1]

C29_NothingWithoutFiles ==
    [][/\ ~files_loaded => (added_files = <<>> /\ tree = <<>>)
       /\ ~files_loaded' => (added_files' = <<>> /\ tree' = <<>>)
       /\ (~files_loaded /\ last'.op \in BatchOps)
          => /\ UNCHANGED <<added_files, tree, listbox, files_loaded,
                            data_loaded, token_flag, entry, release_number,
                            token_wins, edit, disk, inaccessible>>
             /\ last'.passes = <<>>
             /\ last'.proceed = None
             /\ last'.errors = 0
             /\ last'.prompts = 0
             /\ last'.fault = None]_vars

\* C29 witness: 'Copy Tracklist' was clicked with two pending titles in the
\* listbox and no file loaded.
C29_Witness ==
    /\ ~files_loaded
    /\ last.op = "CopyTracklist"
    /\ Len(listbox) = 2
    /\ added_files = <<>>
    /\ tree = <<>>

\* C29 witness of the other buttons: 'Update All' was clicked after a reset
\* of a window that held files.
C29_WitnessAfterReset ==
    /\ ~files_loaded
    /\ last.op = "UpdateAll"
    /\ steps = 3
    /\ listbox = <<>>

\* The pieces of the path of the URL in the URL box, where its host is
\* accepted: the path split at '/'.
PathPieces == split(ReleasePath(rstrip(lstrip(entry["URL"]))).release_path, "/")

\* The URL box holds a URL with an accepted discogs.com host whose second
\* piece is not 'release'.
NotAReleasePage ==
    /\ ReleasePath(rstrip(lstrip(entry["URL"]))).valid_URL
    /\ Len(PathPieces) >= 2
    /\ PathPieces[2] # <<"r", "e", "l", "e", "a", "s", "e">>

\* C30: a ValidateURL on a URL with an accepted host whose second path piece
\* is not 'release' is rejected with one error: release_number is not set,
\* no lookup is made (the entry boxes, the listbox and data_loaded stay)
\* and no token pop-up is opened.
C30_NonReleaseURLRejected ==
    [][(last'.op = "ValidateURL" /\ NotAReleasePage)
       => /\ release_number' = release_number
          /\ token_wins' = token_wins
          /\ last'.lookup = None
          /\ entry' = entry
          /\ listbox' = listbox
          /\ data_loaded' = data_loaded
          /\ last'.errors = 1
          /\ last'.fault = None]_vars

\* C30 witness: ValidateURL has refused the https URL of a master release,
\* the token being known and no data loaded: the lookup would have run.
C30_Witness ==
    /\ last.op = "ValidateURL"
    /\ entry["URL"] = URL_master_https
    /\ token_flag
    /\ ~data_loaded
    /\ last.errors = 1
    /\ listbox = <<>>

\* C30 witness without a token: ValidateURL has refused a URL whose third
\* piece is 'release', and no token pop-up is on screen.
C30_WitnessNoToken ==
    /\ last.op = "ValidateURL"
    /\ entry["URL"] = URL_nested
    /\ ~token_flag
    /\ token_wins = NoTokenWins
    /\ release_number = NoNumber
    /\ last.errors = 1

---------------------------------------------------------------------------
(* C31                                                                     *)

\* The values joined with '; ' between them and nothing after the last.
RECURSIVE JoinedBetween(_)
JoinedBetween(values) ==
    IF Len(values) = 1 THEN Head(values)
    ELSE Head(values) \o <<";", " ">> \o JoinedBetween(Tail(values))

\* C31: in every row ParseFile inserted, the cell of a multi-valued field
\* (Artist, AlbumArtist, Genre) whose tag holds more than one value is the
\* values joined with '; ', with no separator after the last value and
\* every value kept whole, the last one too when it ends in ';' or a blank.
C31_MultiValuesJoined ==
    \A k \in 1..Len(tree) : \A key \in MultiKeys :
        Len(disk[tree[k].src][key]) > 1
        => tree[k].values[ConvertTagToCol(key)]
           = JoinedBetween(disk[tree[k].src][key])

---------------------------------------------------------------------------
(* C32                                                                     *)

\* The eight columns and the eight fields the claim pairs.
MappedColumns == {"#1", "#3", "#4", "#5", "#6", "#7", "#8", "#9"}

MappedTags == {"TrackNumber", "Title", "Artist", "AlbumArtist", "Album",
               "Date", "Genre", "Organization"}

\* C32: the column <-> field mapping is a bijection on its eight pairs:
\* ConvertTagToCol(ConvertColToTag(c)) = c for each of the eight columns,
\* ConvertColToTag(ConvertTagToCol(t)) = t for each of the eight fields,
\* and column '#2' and field 'TrackTotal' map to nothing; wherever the edit
\* pop-up is on a cell, the column it was opened on is one of the nine.
C32_ColumnFieldBijection ==
    /\ \A c \in MappedColumns :
           /\ ConvertColToTag(c) \in MappedTags
           /\ ConvertTagToCol(ConvertColToTag(c)) = c
    /\ \A t \in MappedTags :
           /\ ConvertTagToCol(t) \in MappedColumns
           /\ ConvertColToTag(ConvertTagToCol(t)) = t
    /\ ConvertColToTag("#2") = None
    /\ ConvertTagToCol("TrackTotal") = None
    /\ edit.open => edit.clicked_column \in MappedColumns \cup {"#2"}

\* UpdateField has written 'x' through the pop-up opened on a Genre cell:
\* the file's Genre tag and the cell of column '#8' both hold it.
C32_Witness ==
    /\ last.op = "UpdateField"
    /\ last.fault = None
    /\ last.arg = <<"x">>
    /\ \E k \in 1..Len(tree) :
           /\ k <= Len(added_files)
           /\ tree[k].values["#8"] = <<"x">>
           /\ disk[added_files[k]]["Genre"] = <<<<"x">>>>

\* UpdateField has run on the file-name column, which has no field.
C32_WitnessNoField ==
    /\ last.op = "UpdateField"
    /\ last.fault = "TypeError"
    /\ edit.open
    /\ edit.clicked_column = "#2"

===========================================================================
